---- MODULE Spec2Model ----
(***************************************************************************)
(* Credential security core of NEDA-LABS/api.                              *)
(*                                                                         *)
(*   utils/encryption.ts  (src/unnamed/part_009)   the envelope cipher     *)
(*   services api-key service                                              *)
(*     (src/src/services/email/templates/payment-refunded.ts)              *)
(*                                            LRUCache and ApiKeyService   *)
(*   SecretsService       (src/unnamed/part_016)   credential pairs        *)
(*                                                                         *)
(* The state machines share the variables: SpecCipher drives encrypt,      *)
(* decrypt and the legacy pair; SpecTamper a stored envelope changed in    *)
(* one bit; SpecKeys key resolution while the sources change;              *)
(* SpecNormalize the cipher under each kind of raw key value; Spec the     *)
(* API-key service; SpecValidate direct validateKey calls with every       *)
(* record; SpecMarkUsed validateKeyAsync with its callback; SpecPerm the   *)
(* permission functions; SpecLRU the LRUCache on its own; SpecCredentials  *)
(* the stored IDRX credentials of SecretsService.                          *)
(***************************************************************************)
EXTENDS Integers, Sequences, FiniteSets, TLC

VARIABLES
    env,          \* process.env: variable name -> raw key value or Unset
    keyCache,     \* encryption.ts keyCache: "master_<context>" -> key
    blob,         \* the last envelope produced by encrypt / encryptLegacy
    out,          \* the last decrypt / decryptLegacy call and its outcome
    cache,        \* ApiKeyService.cache: the LRU Map, oldest entry first
    now,          \* Date.now()
    calls,        \* validateKeyAsync calls in flight, by caller
    last          \* the service operation of the last step and its outcome

vars == <<env, keyCache, blob, out, cache, now, calls, last>>

cipherVars == <<env, keyCache, blob, out>>
serviceVars == <<cache, now, calls, last>>

NULL == [null |-> TRUE]

(***************************************************************************)
(* Bytes, UTF-8 and base64                                                 *)
(***************************************************************************)

\* Buffer.concat([...]).toString('base64'): the base64 symbols 0..63, 64 is '='.
\* Symbol i of the group of bytes g, g + 1, g + 2 (a byte past the end reads 0).
B64Symbol(bytes, i) ==
    LET g == 3 * ((i - 1) \div 4)
        b1 == bytes[g + 1]
        b2 == IF g + 2 <= Len(bytes) THEN bytes[g + 2] ELSE 0
        b3 == IF g + 3 <= Len(bytes) THEN bytes[g + 3] ELSE 0
    IN  CASE (i - 1) % 4 = 0 -> b1 \div 4
          [] (i - 1) % 4 = 1 -> (b1 % 4) * 16 + (b2 \div 16)
          [] (i - 1) % 4 = 2 -> IF g + 2 > Len(bytes) THEN 64
                                ELSE (b2 % 16) * 4 + (b3 \div 64)
          [] OTHER -> IF g + 3 > Len(bytes) THEN 64 ELSE b3 % 64

B64Encode(bytes) ==
    [i \in 1..(4 * ((Len(bytes) + 2) \div 3)) |-> B64Symbol(bytes, i)]

\* Buffer.from(s, 'base64') of padded base64: the bytes of the symbols before
\* the first '='; a last group of 3 symbols gives 2 bytes, of 2 symbols 1 byte
B64Byte(sym, i) ==
    LET g == 4 * ((i - 1) \div 3)
    IN  CASE (i - 1) % 3 = 0 -> (sym[g + 1] * 4 + (sym[g + 2] \div 16)) % 256
          [] (i - 1) % 3 = 1 -> ((sym[g + 2] % 16) * 16 + (sym[g + 3] \div 4)) % 256
          [] OTHER -> ((sym[g + 3] % 4) * 64 + sym[g + 4]) % 256

B64Decode(sym) ==
    LET pads == { i \in 1..Len(sym) : sym[i] = 64 }
        n == IF pads = {} THEN Len(sym)
             ELSE (CHOOSE i \in pads : \A j \in pads : i <= j) - 1
        bytes == 3 * (n \div 4) + (IF n % 4 = 3 THEN 2 ELSE IF n % 4 = 2 THEN 1 ELSE 0)
    IN  [i \in 1..bytes |-> B64Byte(sym, i)]

\* cipher.update(plainText, 'utf8'): a string is a sequence of code points
\* below U+0800, one or two bytes each
RECURSIVE Utf8Encode(_)
Utf8Encode(s) ==
    IF Len(s) = 0 THEN << >>
    ELSE LET head == IF s[1] < 128 THEN << s[1] >>
                     ELSE << 192 + (s[1] \div 64), 128 + (s[1] % 64) >>
         IN  head \o Utf8Encode(Tail(s))

\* plaintext.toString('utf8'): an ill-formed byte decodes to U+FFFD
RECURSIVE Utf8Decode(_)
Utf8Decode(b) ==
    IF Len(b) = 0 THEN << >>
    ELSE IF b[1] < 128 THEN << b[1] >> \o Utf8Decode(Tail(b))
    ELSE IF b[1] >= 194 /\ b[1] < 224 /\ Len(b) >= 2 /\ b[2] >= 128 /\ b[2] < 192
         THEN << (b[1] - 192) * 64 + (b[2] - 128) >> \o Utf8Decode(SubSeq(b, 3, Len(b)))
    ELSE << 65533 >> \o Utf8Decode(Tail(b))

\* the value of a character in Buffer.from(s, 'base64'): the standard and the
\* URL-safe alphabet, 64 for '=', -1 for a character the decoder skips
B64Value(ch) ==
    CASE ch >= 65 /\ ch <= 90 -> ch - 65
      [] ch >= 97 /\ ch <= 122 -> ch - 71
      [] ch >= 48 /\ ch <= 57 -> ch + 4
      [] ch = 43 \/ ch = 45 -> 62
      [] ch = 47 \/ ch = 95 -> 63
      [] ch = 61 -> 64
      [] OTHER -> -1

\* Buffer.from(raw, 'base64') of any string: never throws
BufferFromBase64(text) ==
    LET valid == SelectSeq(text, LAMBDA ch : B64Value(ch) >= 0)
    IN  B64Decode([i \in 1..Len(valid) |-> B64Value(valid[i])])

\* buf.toString('base64') as a string of characters
ToBase64(bytes) ==
    LET sym == B64Encode(bytes)
    IN  [i \in 1..Len(sym) |->
            CASE sym[i] < 26 -> sym[i] + 65
              [] sym[i] < 52 -> sym[i] + 71
              [] sym[i] < 62 -> sym[i] - 4
              [] sym[i] = 62 -> 43
              [] sym[i] = 63 -> 47
              [] OTHER -> 61]

HexValue(ch) ==
    CASE ch >= 48 /\ ch <= 57 -> ch - 48
      [] ch >= 97 /\ ch <= 102 -> ch - 87
      [] ch >= 65 /\ ch <= 70 -> ch - 55
      [] OTHER -> -1

\* Buffer.from(raw, 'hex') of any string: the pairs of hexadecimal digits
\* before the first character that is none; never throws
BufferFromHex(text) ==
    LET bad == { i \in 1..Len(text) : HexValue(text[i]) < 0 }
        n == IF bad = {} THEN Len(text)
             ELSE (CHOOSE i \in bad : \A j \in bad : i <= j) - 1
    IN  [i \in 1..(n \div 2) |-> 16 * HexValue(text[2 * i - 1]) + HexValue(text[2 * i])]

\* buf.toString('hex')
ToHex(bytes) ==
    [i \in 1..(2 * Len(bytes)) |->
        LET d == IF i % 2 = 1 THEN bytes[(i + 1) \div 2] \div 16
                 ELSE bytes[i \div 2] % 16
        IN  IF d < 10 THEN d + 48 ELSE d + 87]

(***************************************************************************)
(* encryption.ts: constants and key management                             *)
(***************************************************************************)

IV_LENGTH == 12
AUTH_TAG_LENGTH == 16
KEY_LENGTH == 32

KeyContext == {"api_credentials", "user_secrets", "internal", "default"}

\* a context value outside the enum, as an untyped caller can pass
UnlistedContext == "unlisted"

AnyContext == KeyContext \cup {UnlistedContext}

EnvVars == {"API_CREDENTIALS_KEY", "IDRX_ENC_KEY", "ENCRYPTION_KEY",
            "USER_SECRETS_KEY", "INTERNAL_ENC_KEY", "API_KEY_SALT"}

Unset == [unset |-> TRUE]

PBKDF2_ITERATIONS == 100000

\* generateKey(format), key being the bytes crypto.randomBytes(KEY_LENGTH) drew
generateEncryptionKey(format, key) ==
    IF format = "hex" THEN ToHex(key) ELSE ToBase64(key)

\* the values an operator puts into a key variable: generateKey('base64'),
\* generateKey('hex'), the passphrase "passphrase12", a passphrase of 32
\* letters, the base64 and the hex text of 33 random bytes
KeyTexts ==
    << generateEncryptionKey("base64", [j \in 1..KEY_LENGTH |-> (37 * j + 11) % 256]),
       generateEncryptionKey("hex", [j \in 1..KEY_LENGTH |-> (91 * j + 5) % 256]),
       << 112, 97, 115, 115, 112, 104, 114, 97, 115, 101, 49, 50 >>,
       [j \in 1..KEY_LENGTH |-> 103 + (j % 10)],
       ToBase64([j \in 1..(KEY_LENGTH + 1) |-> (53 * j + 7) % 256]),
       ToHex([j \in 1..(KEY_LENGTH + 1) |-> (29 * j + 3) % 256]) >>

\* A raw key value of process.env, described by what normalizeKey reads of it:
\* the number of bytes its base64, hex and UTF-8 decodings yield.
RawKeys ==
    { [id |-> i, b64 |-> Len(BufferFromBase64(KeyTexts[i])),
       hex |-> Len(BufferFromHex(KeyTexts[i])),
       utf8 |-> Len(Utf8Encode(KeyTexts[i]))] : i \in DOMAIN KeyTexts }

RawKey(i) == CHOOSE r \in RawKeys : r.id = i

\* getMasterKey's keyEnvMap, with `|| keyEnvMap[KeyContext.DEFAULT]` for a
\* context that has no entry
keyEnvMap(context) ==
    CASE context = "api_credentials" -> <<"API_CREDENTIALS_KEY", "IDRX_ENC_KEY", "ENCRYPTION_KEY">>
      [] context = "user_secrets" -> <<"USER_SECRETS_KEY", "ENCRYPTION_KEY">>
      [] context = "internal" -> <<"INTERNAL_ENC_KEY", "ENCRYPTION_KEY">>
      [] OTHER -> <<"ENCRYPTION_KEY", "IDRX_ENC_KEY">>

\* for (const envVar of envVars) { rawKey = process.env[envVar]; if (rawKey) break; }
RECURSIVE FirstSet(_, _)
FirstSet(e, names) ==
    IF Len(names) = 0 THEN Unset
    ELSE IF e[names[1]] # Unset THEN e[names[1]]
    ELSE FirstSet(e, Tail(names))

\* normalizeKey trying the hex decoding before the base64 decoding
normalizeKey_HexFirst(raw) ==
    IF raw.hex >= KEY_LENGTH THEN [kind |-> "master", via |-> "hex", raw |-> raw.id]
    ELSE IF raw.b64 >= KEY_LENGTH THEN [kind |-> "master", via |-> "base64", raw |-> raw.id]
    ELSE IF raw.utf8 = KEY_LENGTH THEN [kind |-> "master", via |-> "utf8", raw |-> raw.id]
    ELSE [kind |-> "master", via |-> "pbkdf2", raw |-> raw.id]

\* normalizeKey: the 32-byte key, named by the rule that produced it
normalizeKey(raw) ==
    IF raw.b64 >= KEY_LENGTH THEN [kind |-> "master", via |-> "base64", raw |-> raw.id]
    ELSE IF raw.hex >= KEY_LENGTH THEN [kind |-> "master", via |-> "hex", raw |-> raw.id]
    ELSE IF raw.utf8 = KEY_LENGTH THEN [kind |-> "master", via |-> "utf8", raw |-> raw.id]
    ELSE [kind |-> "master", via |-> "pbkdf2", raw |-> raw.id]

Thrown(code) == [ok |-> FALSE, code |-> code]
Returned(v) == [ok |-> TRUE, val |-> v]

\* getMasterKey without `if (keyCache.has(cacheKey))`: the sources are read
\* on every call
getMasterKey_NoMemo(e, kc, context) ==
    LET rawKey == FirstSet(e, keyEnvMap(context))
    IN  IF rawKey = Unset THEN [res |-> Thrown("MISSING_KEY"), kc |-> kc]
        ELSE [res |-> Returned(normalizeKey(rawKey)),
              kc |-> [kc EXCEPT ![context] = normalizeKey(rawKey)]]

\* getMasterKey(context): the key or MISSING_KEY, and the key cache afterwards
getMasterKey(e, kc, context) ==
    LET cacheKey == context
        rawKey == FirstSet(e, keyEnvMap(context))
    IN  IF kc[cacheKey] # NULL THEN [res |-> Returned(kc[cacheKey]), kc |-> kc]
        ELSE IF rawKey = Unset THEN [res |-> Thrown("MISSING_KEY"), kc |-> kc]
        ELSE [res |-> Returned(normalizeKey(rawKey)),
              kc |-> [kc EXCEPT ![cacheKey] = normalizeKey(rawKey)]]

\* deriveContextKey: HMAC-SHA256 keyed by the master key over the context name
deriveContextKey(masterKey, context) ==
    [kind |-> "hmac", key |-> masterKey, info |-> context]

(***************************************************************************)
(* AES-256-GCM, as an ideal AEAD over bytes                                *)
(***************************************************************************)

ViaNum(via) == CASE via = "base64" -> 0 [] via = "hex" -> 1 [] via = "utf8" -> 2 [] OTHER -> 3
CtxNum(c) ==
    CASE c = "api_credentials" -> 0 [] c = "user_secrets" -> 1 [] c = "internal" -> 2
      [] c = "default" -> 3 [] OTHER -> 4

\* a number standing for the 32 key bytes, different for different keys
KeyNum(k) ==
    IF k.kind = "master" THEN k.raw * 4 + ViaNum(k.via)
    ELSE 16 * (k.key.raw * 4 + ViaNum(k.key.via)) + CtxNum(k.info)

KeyStream(key, iv, i) == (KeyNum(key) + iv[1] + 31 * i) % 256

RECURSIVE ByteSum(_, _)
ByteSum(ct, weighted) ==
    IF Len(ct) = 0 THEN 0
    ELSE ct[Len(ct)] * (IF weighted THEN Len(ct) ELSE 1)
         + ByteSum(SubSeq(ct, 1, Len(ct) - 1), weighted)

GcmTagOf(keyNum, iv, len, sum, wsum) ==
    [j \in 1..AUTH_TAG_LENGTH |->
        (keyNum * j + iv[((j - 1) % Len(iv)) + 1] + wsum + j * sum + len + j) % 256]

\* cipher.getAuthTag(): 16 bytes depending on the key, the nonce and the ciphertext
GcmTag(key, iv, ct) ==
    GcmTagOf(KeyNum(key), iv, Len(ct), ByteSum(ct, FALSE), ByteSum(ct, TRUE))

\* cipher.update(..) + cipher.final(): the ciphertext is as long as the plaintext
GcmEncrypt(key, iv, pt) ==
    [i \in 1..Len(pt) |-> (pt[i] + KeyStream(key, iv, i)) % 256]

\* a decipher whose final() does not verify the tag
GcmDecrypt_NoTagCheck(key, iv, ct, tag) ==
    IF Len(iv) = 0 THEN Thrown("Error")
    ELSE Returned([i \in 1..Len(ct) |-> (ct[i] + 256 - KeyStream(key, iv, i)) % 256])

\* decipher.setAuthTag, update, final: the plaintext bytes, or the authentication error
GcmDecrypt(key, iv, ct, tag) ==
    IF Len(iv) = 0 \/ Len(tag) # AUTH_TAG_LENGTH \/ tag # GcmTag(key, iv, ct)
    THEN Thrown("Error")
    ELSE Returned([i \in 1..Len(ct) |-> (ct[i] + 256 - KeyStream(key, iv, i)) % 256])

\* buf.subarray(start, end) with 0-based [start, end)
subarray(buf, start, end) ==
    LET s == IF start < 0 THEN 0 ELSE IF start > Len(buf) THEN Len(buf) ELSE start
        e == IF end < 0 THEN 0 ELSE IF end > Len(buf) THEN Len(buf) ELSE end
    IN  SubSeq(buf, s + 1, e)

\* crypto.createHash('sha256').update('nedapay_key_salt').digest(): 32 fixed bytes
KeySalt == [j \in 1..32 |-> (j * 13 + 101) % 256]

\* crypto.pbkdf2Sync(password, salt, iterations, keylen, digest): keylen bytes
\* that depend on every argument
pbkdf2Sync(password, salt, iterations, keylen, digest) ==
    [j \in 1..keylen |->
        (ByteSum(password, TRUE) + ByteSum(salt, FALSE) + iterations + 31 * j
            + (IF digest = "sha256" THEN 0 ELSE 1)) % 256]

\* the Buffer normalizeKey returned for the key k
KeyBytes(k) ==
    CASE k.via = "base64" -> subarray(BufferFromBase64(KeyTexts[k.raw]), 0, KEY_LENGTH)
      [] k.via = "hex" -> subarray(BufferFromHex(KeyTexts[k.raw]), 0, KEY_LENGTH)
      [] k.via = "utf8" -> Utf8Encode(KeyTexts[k.raw])
      [] OTHER -> pbkdf2Sync(Utf8Encode(KeyTexts[k.raw]), KeySalt, PBKDF2_ITERATIONS,
                             KEY_LENGTH, "sha256")

(***************************************************************************)
(* encrypt / decrypt / encryptLegacy / decryptLegacy                       *)
(***************************************************************************)

\* encrypt(plainText, context) with the nonce crypto.randomBytes drew
encrypt(e, kc, plainText, context, iv) ==
    LET mk == getMasterKey(e, kc, context) IN
    IF ~mk.res.ok THEN [res |-> mk.res, kc |-> mk.kc]
    ELSE LET contextKey == deriveContextKey(mk.res.val, context)
             ciphertext == GcmEncrypt(contextKey, iv, Utf8Encode(plainText))
             authTag == GcmTag(contextKey, iv, ciphertext)
             version == << 1 >>
         IN  [res |-> Returned(B64Encode(version \o iv \o ciphertext \o authTag)),
              kc |-> mk.kc]

\* the catch block of decrypt: an EncryptionError is rethrown, anything else
\* becomes DECRYPT_FAILED
DecryptCatch(r) ==
    IF r.ok THEN Returned(Utf8Decode(r.val)) ELSE Thrown("DECRYPT_FAILED")

\* decrypt's body after Buffer.from(encryptedData, 'base64')
decryptBuffer(contextKey, buf) ==
    LET minLength == 1 + IV_LENGTH + 1 + AUTH_TAG_LENGTH
        version == buf[1]
    IN  IF Len(buf) < minLength THEN Thrown("INVALID_FORMAT")
        ELSE IF version = 1 THEN
            DecryptCatch(GcmDecrypt(contextKey,
                subarray(buf, 1, 1 + IV_LENGTH),
                subarray(buf, 1 + IV_LENGTH, Len(buf) - AUTH_TAG_LENGTH),
                subarray(buf, Len(buf) - AUTH_TAG_LENGTH, Len(buf))))
        ELSE IF version >= 32 /\ version <= 126 THEN
            DecryptCatch(GcmDecrypt(contextKey,
                subarray(buf, 0, IV_LENGTH),
                subarray(buf, IV_LENGTH, Len(buf) - AUTH_TAG_LENGTH),
                subarray(buf, Len(buf) - AUTH_TAG_LENGTH, Len(buf))))
        ELSE Thrown("UNSUPPORTED_VERSION")

\* decrypt(encryptedData, context)
decrypt(e, kc, encryptedData, context) ==
    LET mk == getMasterKey(e, kc, context) IN
    IF ~mk.res.ok THEN [res |-> mk.res, kc |-> mk.kc]
    ELSE [res |-> decryptBuffer(deriveContextKey(mk.res.val, context),
                                B64Decode(encryptedData)),
          kc |-> mk.kc]

\* process.env.IDRX_ENC_KEY || process.env.ENCRYPTION_KEY
LegacyRawKey(e) == FirstSet(e, <<"IDRX_ENC_KEY", "ENCRYPTION_KEY">>)

\* encryptLegacy(plainText) with the nonce crypto.randomBytes drew
encryptLegacy(e, plainText, iv) ==
    IF LegacyRawKey(e) = Unset THEN Thrown("MISSING_KEY")
    ELSE LET key == normalizeKey(LegacyRawKey(e))
             ciphertext == GcmEncrypt(key, iv, Utf8Encode(plainText))
             authTag == GcmTag(key, iv, ciphertext)
         IN  Returned(B64Encode(iv \o ciphertext \o authTag))

\* decryptLegacy's body after Buffer.from(encryptedData, 'base64')
decryptLegacyBuffer(key, buf) ==
    LET r == GcmDecrypt(key,
                subarray(buf, 0, IV_LENGTH),
                subarray(buf, IV_LENGTH, Len(buf) - AUTH_TAG_LENGTH),
                subarray(buf, Len(buf) - AUTH_TAG_LENGTH, Len(buf)))
    IN  IF r.ok THEN Returned(Utf8Decode(r.val)) ELSE r

\* decryptLegacy(encryptedData): no try/catch, the cipher's error propagates
decryptLegacy(e, encryptedData) ==
    IF LegacyRawKey(e) = Unset THEN Thrown("MISSING_KEY")
    ELSE decryptLegacyBuffer(normalizeKey(LegacyRawKey(e)), B64Decode(encryptedData))

(***************************************************************************)
(* The cipher's state machine                                              *)
(***************************************************************************)

MaxPlainLen == 1

\* 'A' and U+00E9 (two bytes in UTF-8)
PlainChars == {65, 233}

Plaintexts == UNION { [1..n -> PlainChars] : n \in 0..MaxPlainLen }

\* the first byte crypto.randomBytes(IV_LENGTH) can draw, one of each class
\* decrypt puts it in: 0x01, printable ASCII ('A'), neither (0xFF)
IvLeadBytes == {1, 65, 255}

IVs == { [i \in 1..IV_LENGTH |-> IF i = 1 THEN b ELSE (17 * i) % 256] : b \in IvLeadBytes }

EnvOf(api, idrx, enc) ==
    [v \in EnvVars |->
        CASE v = "API_CREDENTIALS_KEY" -> api
          [] v = "IDRX_ENC_KEY" -> idrx
          [] v = "ENCRYPTION_KEY" -> enc
          [] OTHER -> Unset]

\* the deployments: one shared key; a separate IDRX key; a passphrase; none
EnvConfigs ==
    { EnvOf(Unset, Unset, RawKey(1)),
      EnvOf(Unset, RawKey(2), RawKey(1)),
      EnvOf(RawKey(3), Unset, Unset),
      EnvOf(Unset, Unset, Unset) }

NoBlob == [fn |-> "none"]
NoOut == [fn |-> "none"]

EmptyKeyCache == [c \in AnyContext |-> NULL]

Encrypt(s, c, iv) ==
    \E r \in {encrypt(env, keyCache, s, c, iv)} :
    /\ blob' = [fn |-> "encrypt", s |-> s, ctx |-> c, iv |-> iv, res |-> r.res]
    /\ keyCache' = r.kc
    /\ out' = NoOut
    /\ UNCHANGED env

EncryptLegacy(s, iv) ==
    /\ blob' = [fn |-> "encryptLegacy", s |-> s, ctx |-> "none", iv |-> iv,
                res |-> encryptLegacy(env, s, iv)]
    /\ out' = NoOut
    /\ UNCHANGED <<env, keyCache>>

Decrypt(c) ==
    /\ blob # NoBlob
    /\ blob.res.ok
    /\ \E r \in {decrypt(env, keyCache, blob.res.val, c)} :
        /\ out' = [fn |-> "decrypt", ctx |-> c, res |-> r.res]
        /\ keyCache' = r.kc
    /\ UNCHANGED <<env, blob>>

DecryptLegacy ==
    /\ blob # NoBlob
    /\ blob.res.ok
    /\ out' = [fn |-> "decryptLegacy", ctx |-> "none",
               res |-> decryptLegacy(env, blob.res.val)]
    /\ UNCHANGED <<env, keyCache, blob>>

ClearKeyCache ==
    /\ keyCache # EmptyKeyCache
    /\ keyCache' = EmptyKeyCache
    /\ UNCHANGED <<env, blob, out>>


CipherNext ==
    \/ \E s \in Plaintexts, c \in KeyContext, iv \in IVs : Encrypt(s, c, iv)
    \/ \E s \in Plaintexts, iv \in IVs : EncryptLegacy(s, iv)
    \/ \E c \in KeyContext : Decrypt(c)
    \/ DecryptLegacy
    \/ ClearKeyCache

(***************************************************************************)
(* api-key service: constants, key format                                  *)
(***************************************************************************)

KEY_PREFIX_LIVE == <<"n", "p", "_", "l", "i", "v", "e", "_">>
KEY_PREFIX_TEST == <<"n", "p", "_", "t", "e", "s", "t", "_">>

\* the entry lifetime and the capacity, scaled down from 5 * 60 * 1000 ms and 1000
CACHE_TTL_MS == 1
CACHE_MAX_SIZE == 1

\* expiresAt: null
NoExpiry == -1

\* the characters of the model that lie in [A-Za-z0-9_-]
UrlSafe == {"a", "b", "c", "d", "x", "_", "-"}

\* crypto.randomBytes(KEY_ID_BYTES).toString('base64url'), two characters of it
KeyIdTokens == { <<"a", "b">>, <<"a", "_">> }

\* crypto.randomBytes(KEY_RANDOM_BYTES).toString('base64url'), two characters of it
RandomTokens == { <<"c", "d">>, <<"c", "_">> }

\* generateKey(environment) with the two tokens crypto.randomBytes drew
generateKey(environment, keyId, random) ==
    LET prefix == IF environment = "test" THEN KEY_PREFIX_TEST ELSE KEY_PREFIX_LIVE
    IN  [key |-> prefix \o keyId \o <<"_">> \o random, keyId |-> keyId]

startsWith(s, p) == Len(s) >= Len(p) /\ SubSeq(s, 1, Len(p)) = p

\* isValidFormat(key)
isValidFormat(key) ==
    /\ Len(key) > 0
    /\ startsWith(key, KEY_PREFIX_LIVE) \/ startsWith(key, KEY_PREFIX_TEST)

NoKeyId == [found |-> FALSE, id |-> << >>]

\* extractKeyId: key.match(/^np_(?:live|test)_([A-Za-z0-9_-]+)_/). The group is
\* greedy: it takes the whole run of URL-safe characters after the prefix and
\* backtracks to the last '_' of the run that leaves it at least one character.
extractKeyId(key) ==
    IF ~(startsWith(key, KEY_PREFIX_LIVE) \/ startsWith(key, KEY_PREFIX_TEST))
    THEN NoKeyId
    ELSE LET rest == SubSeq(key, Len(KEY_PREFIX_LIVE) + 1, Len(key))
             stops == { i \in 1..Len(rest) : rest[i] \notin UrlSafe }
             runLen == IF stops = {} THEN Len(rest)
                       ELSE (CHOOSE i \in stops : \A j \in stops : i <= j) - 1
             unders == { i \in 2..runLen : rest[i] = "_" }
         IN  IF unders = {} THEN NoKeyId
             ELSE [found |-> TRUE,
                   id |-> SubSeq(rest, 1, (CHOOSE i \in unders : \A j \in unders : j <= i) - 1)]

\* this.salt = process.env.API_KEY_SALT || process.env.ENCRYPTION_KEY || ''
ServiceSalt(e) == FirstSet(e, <<"API_KEY_SALT", "ENCRYPTION_KEY">>)

\* hashKey: HMAC-SHA256 of the key under the effective salt, as 64 hex characters.
\* The digest is a string described by its length in UTF-16 units, its length
\* in bytes and its text; the keyed hash is taken as collision-free.
hashKey(e, key) ==
    LET effectiveSalt == IF ServiceSalt(e) = Unset
                         THEN [id |-> 0, b64 |-> 0, hex |-> 0, utf8 |-> 40]
                         ELSE ServiceSalt(e)
    IN  [len |-> 64, bytes |-> 64, text |-> <<"hmac", effectiveSalt.id, key>>]

\* secureCompare that stops at the length check
secureCompare_LengthOnly(a, b) ==
    [threw |-> FALSE, eq |-> a.len = b.len, timingSafe |-> FALSE]

\* ApiKeyService.secureCompare(a, b): the outcome, and whether
\* crypto.timingSafeEqual was called. crypto.timingSafeEqual throws a
\* RangeError when the two buffers differ in byte length
secureCompare(a, b) ==
    IF a.len # b.len THEN [threw |-> FALSE, eq |-> FALSE, timingSafe |-> FALSE]
    ELSE IF a.bytes # b.bytes THEN [threw |-> TRUE, eq |-> FALSE, timingSafe |-> TRUE]
    ELSE [threw |-> FALSE, eq |-> a.text = b.text, timingSafe |-> TRUE]

\* encryption.ts secureCompare(a, b): byte lengths are compared, and on a
\* mismatch timingSafeEqual(bufA, bufA) is still called
secureCompareBuffers(a, b) ==
    IF a.bytes # b.bytes THEN [threw |-> FALSE, eq |-> FALSE, timingSafe |-> TRUE]
    ELSE [threw |-> FALSE, eq |-> a.text = b.text, timingSafe |-> TRUE]

(***************************************************************************)
(* LRUCache: the Map in insertion order, oldest first                      *)
(***************************************************************************)

CacheKeys(c) == { c[i].key : i \in 1..Len(c) }

LRUIndex(c, key) ==
    IF key \in CacheKeys(c) THEN CHOOSE i \in 1..Len(c) : c[i].key = key ELSE 0

Without(c, i) == SubSeq(c, 1, i - 1) \o SubSeq(c, i + 1, Len(c))

\* LRUCache.delete
LRUDelete(c, key) ==
    IF LRUIndex(c, key) = 0 THEN c ELSE Without(c, LRUIndex(c, key))

\* LRUCache.get without the delete and re-insert of the entry found
LRUGet_NoPromotion(c, key) ==
    LET i == LRUIndex(c, key) IN
    IF i = 0 THEN [value |-> NULL, cache |-> c]
    ELSE [value |-> c[i].value, cache |-> c]

\* LRUCache.get: the value (or NULL) and the map with the entry moved to the end
LRUGet(c, key) ==
    LET i == LRUIndex(c, key) IN
    IF i = 0 THEN [value |-> NULL, cache |-> c]
    ELSE [value |-> c[i].value, cache |-> Append(Without(c, i), c[i])]

\* LRUCache.set without `else if (this.cache.size >= this.maxSize)`
LRUSet_NoEviction(c, maxSize, key, value) ==
    LET i == LRUIndex(c, key)
    IN  Append(IF i # 0 THEN Without(c, i) ELSE c, [key |-> key, value |-> value])

\* LRUCache.set, for a cache constructed with maxSize
LRUSet(c, maxSize, key, value) ==
    LET i == LRUIndex(c, key)
        kept == IF i # 0 THEN Without(c, i)
                ELSE IF Len(c) >= maxSize THEN Tail(c)
                ELSE c
    IN  Append(kept, [key |-> key, value |-> value])

\* LRUCache.clear
LRUClear(c) == << >>

(***************************************************************************)
(* ApiKeyService: cache management and validation                          *)
(***************************************************************************)

\* getCached with `Date.now() >= entry.expiresAt`
getCached_ExpiresEarly(c, t, key) ==
    LET g == LRUGet(c, key) IN
    IF g.value = NULL THEN [data |-> NULL, cache |-> g.cache]
    ELSE IF t >= g.value.expiresAt THEN [data |-> NULL, cache |-> LRUDelete(g.cache, key)]
    ELSE [data |-> g.value.data, cache |-> g.cache]

\* getCached without `this.cache.delete(key)` for an expired entry
getCached_NoDelete(c, t, key) ==
    LET g == LRUGet(c, key) IN
    IF g.value = NULL THEN [data |-> NULL, cache |-> g.cache]
    ELSE IF t > g.value.expiresAt THEN [data |-> NULL, cache |-> g.cache]
    ELSE [data |-> g.value.data, cache |-> g.cache]

\* getCached that renews the entry it returns (a sliding expiry)
getCached_Sliding(c, t, key) ==
    LET g == LRUGet(c, key) IN
    IF g.value = NULL THEN [data |-> NULL, cache |-> g.cache]
    ELSE IF t > g.value.expiresAt THEN [data |-> NULL, cache |-> LRUDelete(g.cache, key)]
    ELSE [data |-> g.value.data,
          cache |-> Append(LRUDelete(g.cache, key),
                           [key |-> key,
                            value |-> [data |-> g.value.data,
                                       expiresAt |-> t + CACHE_TTL_MS]])]

\* getCached(key) at time t: the data (or NULL) and the cache afterwards
getCached(c, t, key) ==
    LET g == LRUGet(c, key) IN
    IF g.value = NULL THEN [data |-> NULL, cache |-> g.cache]
    ELSE IF t > g.value.expiresAt THEN [data |-> NULL, cache |-> LRUDelete(g.cache, key)]
    ELSE [data |-> g.value.data, cache |-> g.cache]

\* setCache(key, data) at time t
setCache(c, t, key, data) ==
    LRUSet(c, CACHE_MAX_SIZE, key, [data |-> data, expiresAt |-> t + CACHE_TTL_MS])

\* invalidateCache deleting the entries of the key id instead
invalidateCache_ByKeyId(c, keyOrKeyId) ==
    SelectSeq(c, LAMBDA en : en.value.data.keyId # keyOrKeyId)

\* invalidateCache(keyOrKeyId)
invalidateCache(c, keyOrKeyId) == LRUDelete(c, keyOrKeyId)

\* clearCache()
clearCache(c) == LRUClear(c)

ThrownRangeError == [thrown |-> "RangeError"]

\* the ValidatedApiKey built from the stored record
Validated(storedData) == [id |-> storedData.id, keyId |-> storedData.keyId]

\* `storedData.expiresAt > new Date()`: the comparison turned around
expired_Reversed(storedData, t) ==
    storedData.expiresAt # NoExpiry /\ storedData.expiresAt > t

\* storedData.expiresAt && storedData.expiresAt < new Date()
expired(storedData, t) ==
    storedData.expiresAt # NoExpiry /\ storedData.expiresAt < t

\* validateKey with the digest comparison moved before the isActive and
\* expiry checks
validateKey_DigestFirst(e, c, t, key, storedData) ==
    IF ~isValidFormat(key) THEN [result |-> NULL, cache |-> c, why |-> "format"]
    ELSE LET g == getCached(c, t, key)
             keyId == extractKeyId(key)
             cmp == secureCompare(hashKey(e, key), storedData.hashedKey)
         IN  IF g.data # NULL THEN [result |-> g.data, cache |-> g.cache, why |-> "hit"]
             ELSE IF ~keyId.found \/ keyId.id # storedData.keyId
                  THEN [result |-> NULL, cache |-> g.cache, why |-> "keyid"]
             ELSE IF cmp.threw
                  THEN [result |-> ThrownRangeError, cache |-> g.cache, why |-> "threw"]
             ELSE IF ~cmp.eq
                  THEN [result |-> NULL, cache |-> g.cache, why |-> "digest"]
             ELSE IF ~storedData.isActive
                  THEN [result |-> NULL, cache |-> g.cache, why |-> "inactive"]
             ELSE IF expired(storedData, t)
                  THEN [result |-> NULL, cache |-> g.cache, why |-> "expired"]
             ELSE [result |-> Validated(storedData),
                   cache |-> setCache(g.cache, t, key, Validated(storedData)),
                   why |-> "verified"]

\* validateKey(key, storedData) at time t: the result (a ValidatedApiKey, NULL
\* or the error thrown), the cache afterwards and the check that decided
validateKey(e, c, t, key, storedData) ==
    IF ~isValidFormat(key) THEN [result |-> NULL, cache |-> c, why |-> "format"]
    ELSE LET g == getCached(c, t, key)
             keyId == extractKeyId(key)
             cmp == secureCompare(hashKey(e, key), storedData.hashedKey)
         IN  IF g.data # NULL THEN [result |-> g.data, cache |-> g.cache, why |-> "hit"]
             ELSE IF ~keyId.found \/ keyId.id # storedData.keyId
                  THEN [result |-> NULL, cache |-> g.cache, why |-> "keyid"]
             ELSE IF ~storedData.isActive
                  THEN [result |-> NULL, cache |-> g.cache, why |-> "inactive"]
             ELSE IF expired(storedData, t)
                  THEN [result |-> NULL, cache |-> g.cache, why |-> "expired"]
             ELSE IF cmp.threw
                  THEN [result |-> ThrownRangeError, cache |-> g.cache, why |-> "threw"]
             ELSE IF ~cmp.eq
                  THEN [result |-> NULL, cache |-> g.cache, why |-> "digest"]
             ELSE [result |-> Validated(storedData),
                   cache |-> setCache(g.cache, t, key, Validated(storedData)),
                   why |-> "verified"]

\* validateKeyAsync up to its await: either it returns (format, cache hit, no
\* key id) or it calls lookupByKeyId(keyId) and suspends
validateKeyAsyncStart(c, t, key) ==
    IF ~isValidFormat(key)
    THEN [returns |-> TRUE, result |-> NULL, cache |-> c, why |-> "format", keyId |-> << >>]
    ELSE LET g == getCached(c, t, key)
             keyId == extractKeyId(key)
         IN  IF g.data # NULL
             THEN [returns |-> TRUE, result |-> g.data, cache |-> g.cache, why |-> "hit", keyId |-> << >>]
             ELSE IF ~keyId.found
             THEN [returns |-> TRUE, result |-> NULL, cache |-> g.cache, why |-> "keyid", keyId |-> << >>]
             ELSE [returns |-> FALSE, result |-> NULL, cache |-> g.cache, why |-> "lookup", keyId |-> keyId.id]

\* validateKeyAsync after its await, the lookup having returned storedData
\* (NULL: not found)
validateKeyAsyncResume(e, c, t, key, storedData) ==
    IF storedData = NULL THEN [result |-> NULL, cache |-> c, why |-> "notfound"]
    ELSE validateKey(e, c, t, key, storedData)


(***************************************************************************)
(* The service's state machine                                             *)
(***************************************************************************)

MaxInFlight == 1
MaxTime == CACHE_TTL_MS + 1

Environments == {"live", "test"}

\* what createKey can return: {key, keyId}
IssuedKeys ==
    { generateKey(environment, keyId, random) :
        environment \in Environments, keyId \in KeyIdTokens, random \in RandomTokens }

IssuedKeyStrings == { k.key : k \in IssuedKeys }

IssuedAs(key) == CHOOSE k \in IssuedKeys : k.key = key

\* a stored digest that is not the HMAC of any key: 63 characters; 64 characters
\* one of which is not ASCII (65 bytes)
ShortDigest == [len |-> 63, bytes |-> 63, text |-> <<"corrupt", 0, << >> >>]
NonAsciiDigest == [len |-> 64, bytes |-> 65, text |-> <<"corrupt", 0, << >> >>]

\* the ApiKeyData the caller stored for an issued key: keyId and
\* getHashedKey(key), then isActive, expiresAt and the digest as they are now
StoredRecord(k, isActive, expiresAt, hashedKey) ==
    [id |-> [uuid |-> k.key], keyId |-> k.keyId, hashedKey |-> hashedKey,
     isActive |-> isActive, expiresAt |-> expiresAt]

\* a record expires at time 1
ExpiryTimes == {NoExpiry, 1}

ServiceEnv == EnvOf(Unset, Unset, RawKey(1))

\* getHashedKey(fullKey)
getHashedKey(fullKey) == hashKey(ServiceEnv, fullKey)

FreshRecord(k) == StoredRecord(k, TRUE, NoExpiry, getHashedKey(k.key))

DigestKinds == {"hmac", "short", "nonascii"}

StoredDigest(k, kind) ==
    CASE kind = "short" -> ShortDigest
      [] kind = "nonascii" -> NonAsciiDigest
      [] OTHER -> getHashedKey(k.key)

AllRecords ==
    { StoredRecord(k, a, x, StoredDigest(k, d)) :
        k \in IssuedKeys, a \in BOOLEAN, x \in ExpiryTimes, d \in DigestKinds }

\* the record of k as issued, and as it is after one change to it
RecordStates(k) ==
    { FreshRecord(k),
      [FreshRecord(k) EXCEPT !.isActive = FALSE],
      [FreshRecord(k) EXCEPT !.expiresAt = 1],
      [FreshRecord(k) EXCEPT !.hashedKey = ShortDigest],
      [FreshRecord(k) EXCEPT !.hashedKey = NonAsciiDigest] }

MutChars == {"x", "_", "!"}

\* the strings that differ from key in exactly one character
Mutations(key) ==
    { [key EXCEPT ![i] = ch] : i \in 1..Len(key), ch \in MutChars } \ {key}

\* an issued key with its last character changed
Forged(key) == [key EXCEPT ![Len(key)] = "x"]

KeyA == generateKey("live", <<"a", "b">>, <<"c", "d">>)
KeyB == generateKey("live", <<"a", "_">>, <<"c", "d">>)
KeyC == generateKey("test", <<"a", "b">>, <<"c", "d">>)
KeyD == generateKey("live", <<"a", "b">>, <<"c", "_">>)

\* the keys callers present: four issued keys, a forged one, the empty string
\* and a bare prefix
PresentedKeys ==
    { KeyA.key, KeyB.key, KeyC.key, KeyD.key, Forged(KeyA.key), << >>, KEY_PREFIX_LIVE }

\* the issued key a presented key is, or was forged from
Origin(key) ==
    IF key \in IssuedKeyStrings THEN IssuedAs(key) ELSE KeyA

\* the records a caller holds for a presented key: the record of the key it
\* is (or was forged from) in each state, and the fresh record of another key
\* issued under the same key id
RecordsTried(key) ==
    RecordStates(Origin(key))
    \cup {FreshRecord(generateKey("test", Origin(key).keyId, <<"c", "_">>))}

Idle == [pc |-> "idle"]

Init ==
    /\ env = ServiceEnv
    /\ keyCache = EmptyKeyCache
    /\ blob = NoBlob
    /\ out = NoOut
    /\ cache = << >>
    /\ now = 0
    /\ calls = [i \in 1..MaxInFlight |-> Idle]
    /\ last = [op |-> "init", why |-> "none"]

\* validateKey(key, storedData), called directly
ValidateKey(key, storedData) ==
    \E r \in {validateKey(env, cache, now, key, storedData)} :
    /\ cache' = r.cache
    /\ last' = [op |-> "validateKey", why |-> r.why]
    /\ UNCHANGED <<now, calls>>

\* validateKeyAsync(key, lookup) up to `await lookupByKeyId(keyId)`
AsyncStart(i, key) ==
    /\ calls[i] = Idle
    /\ \A j \in 1..(i - 1) : calls[j] # Idle
    /\ \E s \in {validateKeyAsyncStart(cache, now, key)} :
        /\ cache' = s.cache
        /\ IF s.returns
           THEN /\ last' = [op |-> "validateKeyAsync", why |-> s.why]
                /\ UNCHANGED calls
           ELSE /\ last' = [op |-> "lookupByKeyId", why |-> s.why]
                /\ calls' = [calls EXCEPT ![i] =
                        [pc |-> "awaiting", key |-> key, keyId |-> s.keyId]]
    /\ UNCHANGED now

\* the lookup resolves with storedData (NULL: no such key id) and the call runs
\* to its end
AsyncResume(i, storedData) ==
    /\ calls[i] # Idle
    /\ \E r \in {validateKeyAsyncResume(env, cache, now, calls[i].key, storedData)} :
        /\ cache' = r.cache
        /\ last' = [op |-> "validateKeyAsync", why |-> r.why]
    /\ calls' = [calls EXCEPT ![i] = Idle]
    /\ UNCHANGED now

\* the lookup rejects: the call rejects with the caller's own error
AsyncLookupThrows(i) ==
    /\ calls[i] # Idle
    /\ calls' = [calls EXCEPT ![i] = Idle]
    /\ last' = [op |-> "validateKeyAsync", why |-> "lookupThrew"]
    /\ UNCHANGED <<cache, now>>

\* invalidateCache(keyOrKeyId)
InvalidateCache(keyOrKeyId) ==
    /\ cache' = invalidateCache(cache, keyOrKeyId)
    /\ last' = [op |-> "invalidateCache", why |-> "none"]
    /\ UNCHANGED <<now, calls>>

\* clearCache()
ClearCache ==
    /\ cache' = clearCache(cache)
    /\ last' = [op |-> "clearCache", why |-> "none"]
    /\ UNCHANGED <<now, calls>>

\* time passes
Tick ==
    /\ now < MaxTime
    /\ now' = now + 1
    /\ last' = [op |-> "tick", why |-> "none"]
    /\ UNCHANGED <<cache, calls>>

\* what the lookup of an awaiting call can return: a record stored under the
\* key id it was called with
LookupResults(call) ==
    { r \in RecordsTried(call.key) : r.keyId = call.keyId }

Next ==
    \/ /\ \/ \E key \in PresentedKeys : \E r \in RecordsTried(key) : ValidateKey(key, r)
          \/ \E i \in 1..MaxInFlight, key \in PresentedKeys : AsyncStart(i, key)
          \/ \E i \in 1..MaxInFlight :
                /\ calls[i] # Idle
                /\ \E r \in LookupResults(calls[i]) \cup {NULL} : AsyncResume(i, r)
          \/ \E i \in 1..MaxInFlight : AsyncLookupThrows(i)
          \/ \E x \in PresentedKeys \cup KeyIdTokens : InvalidateCache(x)
          \/ ClearCache
          \/ Tick
       /\ UNCHANGED cipherVars

Spec == Init /\ [][Next]_vars

\* the encryption module as loaded, under each configuration of the environment
CipherInit ==
    /\ env \in EnvConfigs
    /\ keyCache = EmptyKeyCache
    /\ blob = NoBlob
    /\ out = NoOut
    /\ cache = << >>
    /\ now = 0
    /\ calls = [i \in 1..MaxInFlight |-> Idle]
    /\ last = [op |-> "init", why |-> "none"]

SpecCipher == CipherInit /\ [][CipherNext /\ UNCHANGED serviceVars]_vars

(***************************************************************************)
(* Claims about the envelope cipher (checked under SpecCipher)             *)
(***************************************************************************)

\* C1: round trip. Whenever decrypt(., c) has been applied to the envelope that
\* encrypt(s, c) returned for the same context c, it returned exactly s; this
\* includes the empty string s.
C1_RoundTrip ==
    (out.fn = "decrypt" /\ blob.fn = "encrypt" /\ out.ctx = blob.ctx)
        => out.res = Returned(blob.s)

\* C2: backward compatibility. Whenever decrypt (under any context) or
\* decryptLegacy has been applied to the envelope encryptLegacy(s) returned,
\* whatever nonce was drawn, it returned exactly s.
C2_LegacyReadable ==
    (blob.fn = "encryptLegacy" /\ out.fn \in {"decrypt", "decryptLegacy"})
        => out.res = Returned(blob.s)

(***************************************************************************)
(* Claims about the API key service (checked under Spec)                   *)
(***************************************************************************)

HasEntry(key) == key \in CacheKeys(cache)

EntryOf(key) == cache[LRUIndex(cache, key)].value

\* a validateKeyAsync(key, .) made now is answered from the cache
Served(key) == validateKeyAsyncStart(cache, now, key).why = "hit"

\* C3: a freshly issued key validates. In every state, for every key createKey
\* can produce, validateKey with the key's record as stored at issue returns
\* the ValidatedApiKey of that record, and validateKeyAsync either answers from
\* the cache or calls the lookup with exactly the issued key id.
C3_FreshKeyValidates ==
    \A k \in IssuedKeys :
        LET s == validateKeyAsyncStart(cache, now, k.key) IN
        /\ validateKey(env, cache, now, k.key, FreshRecord(k)).result
                = Validated(FreshRecord(k))
        /\ s.returns => s.why = "hit"
        /\ ~s.returns => s.keyId = k.keyId

\* C4: the full key is required. In every state where an issued key K is
\* cached, every string that differs from K in one character (and is not itself
\* an issued key) gets null from validateKey with K's record and from
\* validateKeyAsync with a lookup over a store holding K's record.
C4_MutatedKeyRejected ==
    \A key \in CacheKeys(cache) :
        \A mutated \in Mutations(key) \ IssuedKeyStrings :
            LET R == FreshRecord(IssuedAs(key))
                s == validateKeyAsyncStart(cache, now, mutated)
            IN  /\ validateKey(env, cache, now, mutated, R).result = NULL
                /\ s.returns => s.result = NULL
                /\ ~s.returns =>
                        validateKeyAsyncResume(env, s.cache, now, mutated,
                            IF s.keyId = R.keyId THEN R ELSE NULL).result = NULL

\* K is cached and a key forged from it is turned down at the digest comparison
C4_Witness ==
    /\ HasEntry(KeyA.key)
    /\ last.why = "digest"
    /\ validateKey(env, cache, now, Forged(KeyA.key), FreshRecord(KeyA)).why = "digest"

\* C5: with no live cache entry for the key, validateKey returns null for a
\* record that is inactive or whose expiresAt is in the past, although the
\* record's digest is the key's, and the call adds no cache entry.
C5_InactiveOrExpiredRejected ==
    \A k \in IssuedKeys : \A a \in BOOLEAN, x \in ExpiryTimes :
        LET rec == StoredRecord(k, a, x, getHashedKey(k.key))
            r == validateKey(env, cache, now, k.key, rec)
            live == HasEntry(k.key) /\ now <= EntryOf(k.key).expiresAt
        IN  (~live /\ (~a \/ (x # NoExpiry /\ x < now)))
                => (r.result = NULL /\ CacheKeys(r.cache) \subseteq CacheKeys(cache))

\* a validateKey call has just been turned down by the expiry check, and one
\* with the inactive record of an uncached key is turned down next
C5_Witness ==
    /\ last = [op |-> "validateKey", why |-> "expired"]
    /\ ~HasEntry(KeyA.key)
    /\ validateKey(env, cache, now, KeyA.key,
            [FreshRecord(KeyA) EXCEPT !.isActive = FALSE]).why = "inactive"

\* C6: validation failures are values. No validateKey or validateKeyAsync call
\* has thrown, and in every state validateKey, for every presented key and
\* every stored record, returns without throwing.
C6_FailuresAreNull ==
    /\ last.why # "threw"
    /\ \A key \in PresentedKeys : \A rec \in RecordsTried(key) :
            validateKey(env, cache, now, key, rec).result # ThrownRangeError

\* C7 as stated: once a validation of K is answered from the cache, it stays
\* answered from the cache at every later time up to the entry's expiresAt;
\* and a call made after expiresAt invokes the lookup.
C7_ServedUntilTtl ==
    /\ [][\A key \in PresentedKeys :
            (Served(key) /\ now' <= EntryOf(key).expiresAt) => Served(key)']_vars
    /\ [](\A key \in PresentedKeys :
            (HasEntry(key) /\ now > EntryOf(key).expiresAt)
                => validateKeyAsyncStart(cache, now, key).why = "lookup")

\* C7, amended: a verification stores the entry with expiresAt = now + TTL;
\* while the entry is in the cache and now <= expiresAt, validateKeyAsync is
\* answered from the cache with the entry's data, and no step changes such an
\* entry other than by removing it; once the entry is gone (evicted,
\* invalidated, cleared) or expiresAt has passed, the next validateKeyAsync
\* invokes the lookup.
C7_ServedWhilePresent ==
    /\ [](\A key \in CacheKeys(cache) :
            now <= EntryOf(key).expiresAt
                => (Served(key)
                    /\ validateKeyAsyncStart(cache, now, key).result = EntryOf(key).data))
    /\ [][\A i \in 1..Len(cache) :
            (now <= cache[i].value.expiresAt
                /\ \E j \in 1..Len(cache') : cache'[j].key = cache[i].key)
                => \E j \in 1..Len(cache') : cache'[j] = cache[i]]_vars
    /\ [](\A key \in PresentedKeys :
            (isValidFormat(key) /\ extractKeyId(key).found
                /\ (HasEntry(key) => now > EntryOf(key).expiresAt))
                => validateKeyAsyncStart(cache, now, key).why = "lookup")
    /\ [](last.why = "verified"
            => (cache # << >> /\ cache[Len(cache)].value.expiresAt = now + CACHE_TTL_MS))

\* a validateKeyAsync call has just been answered from the cache at the very
\* end of the entry's life
C7_Witness ==
    /\ last = [op |-> "validateKeyAsync", why |-> "hit"]
    /\ \E key \in PresentedKeys :
            HasEntry(key) /\ Served(key) /\ now = EntryOf(key).expiresAt

\* C8: revocation. In every state where an issued key is cached, after
\* invalidateCache(key) a validateKeyAsync(key, .) invokes the lookup with the
\* key's id, and when the lookup returns the key's record with isActive = false
\* the call returns null and caches nothing for the key.
C8_RevokedAfterInvalidate ==
    \A key \in CacheKeys(cache) :
        LET k == IssuedAs(key)
            s == validateKeyAsyncStart(invalidateCache(cache, key), now, key)
        IN  /\ ~s.returns
            /\ s.keyId = k.keyId
            /\ \A x \in ExpiryTimes :
                LET r == validateKeyAsyncResume(env, s.cache, now, key,
                            StoredRecord(k, FALSE, x, getHashedKey(key)))
                IN  r.result = NULL /\ key \notin CacheKeys(r.cache)

\* a key has just been verified and cached by validateKeyAsync, it is served
\* from the cache, and invalidateCache(key) sends the next call to the lookup
C8_Witness ==
    /\ last = [op |-> "validateKeyAsync", why |-> "verified"]
    /\ \E key \in CacheKeys(cache) :
        /\ Served(key)
        /\ validateKeyAsyncStart(invalidateCache(cache, key), now, key).why = "lookup"

\* C9: in every state, for every cached key, invalidateCache called with the
\* full key and invalidateCache called with the key's id both leave a cache
\* from which the key is not served, and clearCache leaves an empty cache.
C9_InvalidateByKeyOrKeyId ==
    /\ \A i \in 1..Len(cache) :
        \A x \in {cache[i].key, cache[i].value.data.keyId} :
            validateKeyAsyncStart(invalidateCache(cache, x), now, cache[i].key).why # "hit"
    /\ clearCache(cache) = << >>

C19_AlwaysTimingSafe ==
    \A key \in PresentedKeys : \A rec \in RecordsTried(key) :
        validateKey(env, cache, now, key, rec).why \in {"digest", "verified", "threw"}
            => secureCompare(hashKey(env, key), rec.hashedKey).timingSafe

\* API_KEY_SALT and ENCRYPTION_KEY each set or unset, the other sources unset
SaltConfigs ==
    { [EnvOf(Unset, Unset, enc) EXCEPT !["API_KEY_SALT"] = salt] :
        salt \in {Unset, RawKey(3)}, enc \in {Unset, RawKey(1)} }

\* C20: the HMAC salt is not an encryption key. In the configuration the
\* service runs under and in every configuration of API_KEY_SALT and
\* ENCRYPTION_KEY, the value hashKey uses as HMAC key is not the value of a
\* source from which some context resolves its master key.
C20_SaltIsNoEncryptionKey ==
    \A e \in SaltConfigs \cup {env} :
        ServiceSalt(e) # Unset =>
            \A c \in KeyContext : \A i \in 1..Len(keyEnvMap(c)) :
                e[keyEnvMap(c)[i]] # ServiceSalt(e)

(***************************************************************************)
(* Further claims about the envelope cipher (checked under SpecCipher)     *)
(***************************************************************************)

\* C11: context isolation. Whenever decrypt(., c2) has been applied to the
\* envelope encrypt(s, c1) returned, with c2 # c1 and a key source configured
\* for c2, it raised DECRYPT_FAILED, whatever s was (the empty string
\* included) and also when both contexts resolve to the same master key.
C11_ContextIsolation ==
    (/\ out.fn = "decrypt" /\ blob.fn = "encrypt" /\ out.ctx # blob.ctx
     /\ FirstSet(env, keyEnvMap(out.ctx)) # Unset)
        => out.res = Thrown("DECRYPT_FAILED")

\* C13: decrypt classifies its input. Whenever decrypt has been applied (with
\* a key configured) to an envelope, the outcome is the one its leading byte
\* and length call for: shorter than the shortest envelope of its format (29
\* bytes for the current format, 28 for the legacy one) raised INVALID_FORMAT;
\* otherwise leading byte 0x01 was parsed as the current format and leading
\* byte 0x20..0x7E as the legacy format, each returning the whole plaintext or
\* raising DECRYPT_FAILED; any other leading byte raised UNSUPPORTED_VERSION
\* (or INVALID_FORMAT). A returned plaintext is the one that was encrypted.
C13_Classified ==
    (/\ out.fn = "decrypt" /\ blob # NoBlob /\ blob.res.ok
     /\ FirstSet(env, keyEnvMap(out.ctx)) # Unset)
        => LET buf == B64Decode(blob.res.val)
               lead == buf[1]
               current == lead = 1
               legacy == lead >= 32 /\ lead <= 126
               shortest == IF current THEN 1 + IV_LENGTH + AUTH_TAG_LENGTH
                           ELSE IV_LENGTH + AUTH_TAG_LENGTH
           IN  /\ out.res.ok => out.res.val = blob.s
               /\ ((current \/ legacy) /\ Len(buf) < shortest)
                    => out.res = Thrown("INVALID_FORMAT")
               /\ ((current \/ legacy) /\ Len(buf) >= shortest)
                    => (out.res.ok \/ out.res = Thrown("DECRYPT_FAILED"))
               /\ (~current /\ ~legacy)
                    => out.res \in {Thrown("UNSUPPORTED_VERSION"), Thrown("INVALID_FORMAT")}

(***************************************************************************)
(* Tampering with a stored envelope (SpecTamper): one encrypt, one bit of  *)
(* the stored envelope flipped, then decrypt under the same context        *)
(***************************************************************************)

\* the longest envelope encrypt returns: a character is at most 2 bytes here
MaxEnvelopeLen == 1 + IV_LENGTH + 2 * MaxPlainLen + AUTH_TAG_LENGTH

\* buf with bit `bit` of its byte at index pos (from 1) flipped
FlipBit(buf, pos, bit) ==
    [buf EXCEPT ![pos] = IF (@ \div (2 ^ bit)) % 2 = 1 THEN @ - 2 ^ bit ELSE @ + 2 ^ bit]

\* encrypt, on a store that holds no envelope yet
EncryptOnce(s, c, iv) == blob = NoBlob /\ Encrypt(s, c, iv)

\* the stored envelope is changed in one bit before decrypt reads it
Tamper(pos, bit) ==
    /\ blob.fn = "encrypt"
    /\ blob.res.ok
    /\ \E buf \in {B64Decode(blob.res.val)} :
        /\ pos <= Len(buf)
        /\ blob' = [fn |-> "tampered", s |-> blob.s, ctx |-> blob.ctx, iv |-> blob.iv,
                    pos |-> pos, bit |-> bit, len |-> Len(buf),
                    res |-> Returned(B64Encode(FlipBit(buf, pos, bit)))]
    /\ out' = NoOut
    /\ UNCHANGED <<env, keyCache>>

\* decrypt(., c) of the tampered envelope, c the context it was encrypted under
DecryptTampered == blob.fn = "tampered" /\ out = NoOut /\ Decrypt(blob.ctx)

TamperNext ==
    \/ \E s \in Plaintexts, c \in KeyContext, iv \in IVs : EncryptOnce(s, c, iv)
    \/ \E pos \in 1..MaxEnvelopeLen, bit \in 0..7 : Tamper(pos, bit)
    \/ DecryptTampered

SpecTamper == CipherInit /\ [][TamperNext /\ UNCHANGED serviceVars]_vars

\* C12: tamper detection. Whenever decrypt(., c) has been applied to an
\* envelope of encrypt(s, c) with one bit flipped (in the version byte, the
\* nonce, the ciphertext or the tag), it raised an error and returned no
\* plaintext.
C12_TamperDetected ==
    (blob.fn = "tampered" /\ out.fn = "decrypt" /\ out.ctx = blob.ctx) => ~out.res.ok

\* a bit of the ciphertext of a non-empty plaintext was flipped and decrypt
\* raised DECRYPT_FAILED
C12_Witness ==
    /\ blob.fn = "tampered" /\ out.fn = "decrypt"
    /\ blob.s # << >>
    /\ blob.pos > 1 + IV_LENGTH /\ blob.pos <= blob.len - AUTH_TAG_LENGTH
    /\ out.res = Thrown("DECRYPT_FAILED")

(***************************************************************************)
(* Key resolution while the key sources change (SpecKeys)                  *)
(***************************************************************************)

\* the plaintext and the nonce of the calls that resolve keys
ProbeText == << 65 >>
ProbeIV == CHOOSE iv \in IVs : iv[1] = 255

\* process.env is changed from outside (a deployment rotates or removes keys)
SetEnv(e) ==
    /\ e # env
    /\ env' = e
    /\ UNCHANGED <<keyCache, blob, out>>

KeysNext ==
    \/ \E e \in EnvConfigs : SetEnv(e)
    \/ \E c \in AnyContext : Encrypt(ProbeText, c, ProbeIV)
    \/ \E c \in AnyContext : Decrypt(c)
    \/ ClearKeyCache

SpecKeys == CipherInit /\ [][KeysNext /\ UNCHANGED serviceVars]_vars

\* the first value that is set among the sources named in list, or Unset
FirstPresent(e, list) ==
    LET set == { i \in 1..Len(list) : e[list[i]] # Unset }
    IN  IF set = {} THEN Unset
        ELSE e[list[CHOOSE i \in set : \A j \in set : i <= j]]

\* C14: key resolution. In every state, a first resolution of a context uses
\* the first set value of that context's own source list and raises
\* MISSING_KEY when none is set, encrypt and decrypt raise that MISSING_KEY
\* unchanged, and a context without a source list of its own fails to resolve.
C14_KeyResolution ==
    \A c \in AnyContext :
        LET r == getMasterKey(env, EmptyKeyCache, c)
            first == FirstPresent(env, keyEnvMap(c))
        IN  /\ (c \in KeyContext /\ first # Unset) => r.res = Returned(normalizeKey(first))
            /\ (c \in KeyContext /\ first = Unset) =>
                /\ r.res = Thrown("MISSING_KEY")
                /\ encrypt(env, EmptyKeyCache, ProbeText, c, ProbeIV).res = Thrown("MISSING_KEY")
                /\ blob # NoBlob /\ blob.res.ok =>
                    decrypt(env, EmptyKeyCache, blob.res.val, c).res = Thrown("MISSING_KEY")
            /\ c \notin KeyContext =>
                /\ ~r.res.ok
                /\ (blob.fn = "encrypt" /\ blob.ctx = c) => ~blob.res.ok

\* C15: master-key memoization. A memoized key is what getMasterKey returns
\* and what encrypt uses whatever the sources hold now; it changes only when
\* clearKeyCache empties the cache; a context that is not memoized resolves
\* from the current sources and memoizes the result; a resolution that raises
\* MISSING_KEY leaves the cache as it was.
C15_Memoized ==
    /\ [](\A c \in AnyContext :
            IF keyCache[c] # NULL
            THEN \A e \in EnvConfigs :
                    /\ getMasterKey(e, keyCache, c)
                            = [res |-> Returned(keyCache[c]), kc |-> keyCache]
                    /\ encrypt(e, keyCache, ProbeText, c, ProbeIV).res
                            = encrypt(env, keyCache, ProbeText, c, ProbeIV).res
            ELSE LET r == getMasterKey(env, keyCache, c)
                     first == FirstPresent(env, keyEnvMap(c))
                 IN  IF first = Unset
                     THEN r = [res |-> Thrown("MISSING_KEY"), kc |-> keyCache]
                     ELSE /\ r.res = Returned(normalizeKey(first))
                          /\ r.kc = [keyCache EXCEPT ![c] = normalizeKey(first)])
    /\ [][\A c \in AnyContext :
            keyCache[c] # NULL => (keyCache'[c] = keyCache[c] \/ keyCache' = EmptyKeyCache)]_vars

\* decrypt has just returned the plaintext under a memoized key although no
\* source of its context is set any more
C15_Witness ==
    /\ out.fn = "decrypt" /\ out.res = Returned(ProbeText)
    /\ keyCache[out.ctx] # NULL
    /\ FirstSet(env, keyEnvMap(out.ctx)) = Unset

(***************************************************************************)
(* validateKeyAsync with the updateLastUsed callback (SpecMarkUsed)        *)
(***************************************************************************)

\* what the caller's updateLastUsed does when called: not supplied; returns a
\* promise that resolves, rejects or never settles; throws before returning
Callbacks == {"none", "resolves", "rejects", "pending", "throws"}

ThrownByCallback == [thrown |-> "CallbackError"]

\* `if (updateLastUsed) { updateLastUsed(id).catch(() => {}); } return validated;`
\* the promise's rejection is swallowed and nothing is awaited; an exception
\* thrown by the call itself is not caught
markUsed(updateLastUsed, validated) ==
    [invoked |-> updateLastUsed # "none",
     result |-> IF updateLastUsed = "throws" THEN ThrownByCallback ELSE validated]

\* how validateKeyAsync ends once the validation has produced `validated`
\* (NULL, the error thrown, or a ValidatedApiKey)
asyncOutcome(updateLastUsed, validated) ==
    IF validated = NULL \/ validated = ThrownRangeError
    THEN [invoked |-> FALSE, result |-> validated]
    ELSE markUsed(updateLastUsed, validated)

\* validateKeyAsync(key, lookupByKeyId, updateLastUsed) up to the await
AsyncStartCb(key, cb) ==
    /\ calls[1] = Idle
    /\ \E s \in {validateKeyAsyncStart(cache, now, key)} :
        /\ cache' = s.cache
        /\ IF s.returns
           THEN /\ last' = [op |-> "validateKeyAsync", why |-> s.why,
                            validated |-> s.result,
                            outcome |-> asyncOutcome(cb, s.result)]
                /\ UNCHANGED calls
           ELSE /\ last' = [op |-> "lookupByKeyId", why |-> s.why]
                /\ calls' = [calls EXCEPT ![1] =
                        [pc |-> "awaiting", key |-> key, keyId |-> s.keyId, cb |-> cb]]
    /\ UNCHANGED now

\* the lookup resolves with storedData and the call runs to its end
AsyncResumeCb(storedData) ==
    /\ calls[1] # Idle
    /\ \E r \in {validateKeyAsyncResume(env, cache, now, calls[1].key, storedData)} :
        /\ cache' = r.cache
        /\ last' = [op |-> "validateKeyAsync", why |-> r.why,
                    validated |-> r.result,
                    outcome |-> asyncOutcome(calls[1].cb, r.result)]
    /\ calls' = [calls EXCEPT ![1] = Idle]
    /\ UNCHANGED now

\* the keys presented with a callback: an issued key, a forged one, no key
MarkUsedKeys == {KeyA.key, Forged(KeyA.key), << >>}

MarkUsedNext ==
    /\ \/ \E key \in MarkUsedKeys, cb \in Callbacks : AsyncStartCb(key, cb)
       \/ /\ calls[1] # Idle
          /\ \E r \in LookupResults(calls[1]) \cup {NULL} : AsyncResumeCb(r)
       \/ InvalidateCache(KeyA.key)
       \/ Tick
    /\ UNCHANGED cipherVars

SpecMarkUsed == Init /\ [][MarkUsedNext]_vars

\* C16: the mark-used callback is fire-and-forget. Whenever a validateKeyAsync
\* call has ended, on the cache-hit path or after a verification: if the
\* validation produced a validated key then the call resolved to that key
\* whatever updateLastUsed did (resolved, rejected, never settled, threw), and
\* if the call returned null the callback was not invoked.
C16_MarkUsedFireAndForget ==
    last.op = "validateKeyAsync" =>
        /\ (last.validated # NULL /\ last.validated # ThrownRangeError)
                => last.outcome.result = last.validated
        /\ last.outcome.result = NULL => ~last.outcome.invoked

(***************************************************************************)
(* Permission matching (SpecPerm): the inputs are drawn at the start and   *)
(* each function is applied to them                                        *)
(***************************************************************************)

MaxPerms == 2
MaxActions == 2

\* permission strings as sequences of characters: "*", "r:*", "r:x", "o:x",
\* "r", ":*", "r:", "r*"
PermStrings ==
    { <<"*">>, <<"r", ":", "*">>, <<"r", ":", "x">>, <<"o", ":", "x">>,
      <<"r">>, <<":", "*">>, <<"r", ":">>, <<"r", "*">> }

\* the actions asked for: "r:x", "r", "o:x", ":x", "r:*"
ActionStrings ==
    { <<"r", ":", "x">>, <<"r">>, <<"o", ":", "x">>, <<":", "x">>, <<"r", ":", "*">> }

PermLists == UNION { [1..n -> PermStrings] : n \in 0..MaxPerms }
ActionLists == UNION { [1..n -> ActionStrings] : n \in 0..MaxActions }

\* String.endsWith
endsWith(str, suffix) ==
    /\ Len(suffix) <= Len(str)
    /\ SubSeq(str, Len(str) - Len(suffix) + 1, Len(str)) = suffix

\* Array.includes
includes(arr, x) == \E i \in 1..Len(arr) : arr[i] = x

\* hasPermission with p.slice(0, -2): the colon is not part of the prefix
hasPermission_PrefixWithoutColon(validated, permission) ==
    LET perms == validated.permissions IN
    IF Len(perms) = 0 THEN TRUE
    ELSE \/ includes(perms, <<"*">>)
         \/ includes(perms, permission)
         \/ \E i \in 1..Len(perms) :
                /\ endsWith(perms[i], <<":", "*">>)
                /\ startsWith(permission, SubSeq(perms[i], 1, Len(perms[i]) - 2))

\* hasPermission(validated, permission)
hasPermission(validated, permission) ==
    LET perms == validated.permissions IN
    IF Len(perms) = 0 THEN TRUE
    ELSE \/ includes(perms, <<"*">>)
         \/ includes(perms, permission)
         \/ \E i \in 1..Len(perms) :
                /\ endsWith(perms[i], <<":", "*">>)
                /\ startsWith(permission, SubSeq(perms[i], 1, Len(perms[i]) - 1))

\* permissions.some((p) => this.hasPermission(validated, p)), element by element
RECURSIVE hasAnyPermission(_, _)
hasAnyPermission(validated, permissions) ==
    IF Len(permissions) = 0 THEN FALSE
    ELSE IF hasPermission(validated, Head(permissions)) THEN TRUE
    ELSE hasAnyPermission(validated, Tail(permissions))

\* hasAllPermissions written with `some`
hasAllPermissions_Some(validated, permissions) == hasAnyPermission(validated, permissions)

\* permissions.every((p) => this.hasPermission(validated, p)), element by element
RECURSIVE hasAllPermissions(_, _)
hasAllPermissions(validated, permissions) ==
    IF Len(permissions) = 0 THEN TRUE
    ELSE IF ~hasPermission(validated, Head(permissions)) THEN FALSE
    ELSE hasAllPermissions(validated, Tail(permissions))

\* a validated key with its permission list and a list of actions to ask for
PermInit ==
    /\ env = ServiceEnv
    /\ keyCache = EmptyKeyCache
    /\ blob = NoBlob
    /\ out = NoOut
    /\ cache = << >>
    /\ now = 0
    /\ calls = [i \in 1..MaxInFlight |-> Idle]
    /\ \E perms \in PermLists, actions \in ActionLists :
        last = [op |-> "input", validated |-> [permissions |-> perms], actions |-> actions]

HasPermission(permission) ==
    /\ last.op = "input"
    /\ last' = [op |-> "hasPermission", validated |-> last.validated,
                permission |-> permission,
                result |-> hasPermission(last.validated, permission)]
    /\ UNCHANGED <<env, keyCache, blob, out, cache, now, calls>>

HasAllPermissions ==
    /\ last.op = "input"
    /\ last' = [op |-> "hasAllPermissions", validated |-> last.validated,
                actions |-> last.actions,
                result |-> hasAllPermissions(last.validated, last.actions)]
    /\ UNCHANGED <<env, keyCache, blob, out, cache, now, calls>>

HasAnyPermission ==
    /\ last.op = "input"
    /\ last' = [op |-> "hasAnyPermission", validated |-> last.validated,
                actions |-> last.actions,
                result |-> hasAnyPermission(last.validated, last.actions)]
    /\ UNCHANGED <<env, keyCache, blob, out, cache, now, calls>>

PermNext ==
    \/ \E permission \in ActionStrings : HasPermission(permission)
    \/ HasAllPermissions
    \/ HasAnyPermission

SpecPerm == PermInit /\ [][PermNext]_vars

\* C17: permission matching. Whenever hasPermission(k, action) has been
\* applied, its result is TRUE exactly when k.permissions is empty, or holds
\* "*", or holds action itself, or holds an entry r ":*" such that action
\* starts with r ":".
C17_PermissionMatching ==
    last.op = "hasPermission" =>
        LET perms == last.validated.permissions
            action == last.permission
        IN  last.result <=>
                \/ perms = << >>
                \/ \E i \in 1..Len(perms) : perms[i] = <<"*">>
                \/ \E i \in 1..Len(perms) : perms[i] = action
                \/ \E i \in 1..Len(perms) : \E n \in 1..Len(action) :
                        action[n] = ":" /\ perms[i] = SubSeq(action, 1, n) \o <<"*">>

\* hasPermission has answered FALSE for permission "r:*" and action "r"
C17_Witness ==
    /\ last.op = "hasPermission"
    /\ last.validated.permissions = << <<"r", ":", "*">> >>
    /\ last.permission = <<"r">>
    /\ last.result = FALSE

\* C18: whenever hasAllPermissions(k, A) has been applied its result is the
\* conjunction, and whenever hasAnyPermission(k, A) has been applied its result
\* is the disjunction, of hasPermission(k, a) over the elements a of A; the
\* empty list A and the empty permission list included.
C18_AllAndAny ==
    /\ last.op = "hasAllPermissions" =>
        (last.result <=>
            \A i \in 1..Len(last.actions) : hasPermission(last.validated, last.actions[i]))
    /\ last.op = "hasAnyPermission" =>
        (last.result <=>
            \E i \in 1..Len(last.actions) : hasPermission(last.validated, last.actions[i]))

\* hasAllPermissions has answered FALSE for a list of two actions of which the
\* key has one
C18_Witness ==
    /\ last.op = "hasAllPermissions"
    /\ Len(last.actions) = 2
    /\ hasPermission(last.validated, last.actions[1])
    /\ ~hasPermission(last.validated, last.actions[2])
    /\ last.result = FALSE

(***************************************************************************)
(* SecretsService (src/unnamed/part_016): credential pairs and the stored  *)
(* IDRX row of one user (SpecCredentials)                                  *)
(***************************************************************************)

\* private readonly context = KeyContext.API_CREDENTIALS
SecretsContext == "api_credentials"

\* an error object, with the function that created it
ThrownBy(fn, r) == [ok |-> FALSE, code |-> r.code, by |-> fn]

Called(fn, r) == [fn |-> fn, res |-> r]

\* F applied to the value of x, x evaluated once (const x = ...)
With(x, F(_)) == CHOOSE r \in { F(v) : v \in {x} } : TRUE

\* encryptCredentials(apiKey, apiSecret) with the two nonces drawn: the catch
\* block logs and rethrows
encryptCredentials(e, kc, apiKey, apiSecret, iv1, iv2) ==
    IF apiKey = << >> THEN [res |-> Thrown("MISSING_API_KEY"), kc |-> kc]
    ELSE With(encrypt(e, kc, apiKey, SecretsContext, iv1), LAMBDA k :
         IF ~k.res.ok THEN [res |-> k.res, kc |-> k.kc]
         ELSE With(encrypt(e, k.kc, IF apiSecret # << >> THEN apiSecret ELSE << >>,
                           SecretsContext, iv2), LAMBDA s :
              IF ~s.res.ok THEN [res |-> s.res, kc |-> s.kc]
              ELSE [res |-> Returned([apiKeyEnc |-> k.res.val,
                                      apiSecretEnc |-> s.res.val]),
                    kc |-> s.kc]))

\* encryptCredentialsLegacy(apiKey, apiSecret) with the two nonces drawn
encryptCredentialsLegacy(e, apiKey, apiSecret, iv1, iv2) ==
    IF apiKey = << >> THEN Thrown("MISSING_API_KEY")
    ELSE With(encryptLegacy(e, apiKey, iv1), LAMBDA k :
         IF ~k.ok THEN k
         ELSE With(encryptLegacy(e, IF apiSecret # << >> THEN apiSecret ELSE << >>, iv2),
                   LAMBDA s :
              IF ~s.ok THEN s
              ELSE Returned([apiKeyEnc |-> k.val, apiSecretEnc |-> s.val])))

\* the try block of decryptCredentials: decrypt of the key, then of the
\* secret when there is one; trace lists the calls made
decryptPair(e, kc, apiKeyEnc, apiSecretEnc) ==
    With(decrypt(e, kc, apiKeyEnc, SecretsContext), LAMBDA k :
    IF ~k.res.ok
    THEN [res |-> ThrownBy("decrypt", k.res), kc |-> k.kc,
          trace |-> << Called("decrypt", k.res) >>]
    ELSE IF apiSecretEnc = << >>
    THEN [res |-> Returned([apiKey |-> k.res.val, apiSecret |-> << >>]), kc |-> k.kc,
          trace |-> << Called("decrypt", k.res) >>]
    ELSE With(decrypt(e, k.kc, apiSecretEnc, SecretsContext), LAMBDA s :
         [res |-> IF s.res.ok
                  THEN Returned([apiKey |-> k.res.val, apiSecret |-> s.res.val])
                  ELSE ThrownBy("decrypt", s.res),
          kc |-> s.kc,
          trace |-> << Called("decrypt", k.res), Called("decrypt", s.res) >>]))

\* the try block inside the catch: decryptLegacy of the key, then of the secret
decryptPairLegacy(e, apiKeyEnc, apiSecretEnc) ==
    With(decryptLegacy(e, apiKeyEnc), LAMBDA k :
    IF ~k.ok
    THEN [res |-> ThrownBy("decryptLegacy", k),
          trace |-> << Called("decryptLegacy", k) >>]
    ELSE IF apiSecretEnc = << >>
    THEN [res |-> Returned([apiKey |-> k.val, apiSecret |-> << >>]),
          trace |-> << Called("decryptLegacy", k) >>]
    ELSE With(decryptLegacy(e, apiSecretEnc), LAMBDA s :
         [res |-> IF s.ok THEN Returned([apiKey |-> k.val, apiSecret |-> s.val])
                  ELSE ThrownBy("decryptLegacy", s),
          trace |-> << Called("decryptLegacy", k), Called("decryptLegacy", s) >>]))

\* decryptCredentials whose inner catch throws the error it caught
decryptCredentials_ThrowsLegacyError(e, kc, apiKeyEnc, apiSecretEnc) ==
    IF apiKeyEnc = << >>
    THEN [res |-> ThrownBy("decryptCredentials", Thrown("MISSING_ENCRYPTED_KEY")),
          kc |-> kc, trace |-> << >>]
    ELSE With(decryptPair(e, kc, apiKeyEnc, apiSecretEnc), LAMBDA cur :
         IF cur.res.ok THEN cur
         ELSE With(decryptPairLegacy(e, apiKeyEnc, apiSecretEnc), LAMBDA leg :
              [res |-> leg.res, kc |-> cur.kc, trace |-> cur.trace \o leg.trace]))

\* decryptCredentials(apiKeyEnc, apiSecretEnc): the pair or the error thrown,
\* the key cache afterwards and the decrypt / decryptLegacy calls made
decryptCredentials(e, kc, apiKeyEnc, apiSecretEnc) ==
    IF apiKeyEnc = << >>
    THEN [res |-> ThrownBy("decryptCredentials", Thrown("MISSING_ENCRYPTED_KEY")),
          kc |-> kc, trace |-> << >>]
    ELSE With(decryptPair(e, kc, apiKeyEnc, apiSecretEnc), LAMBDA cur :
         IF cur.res.ok THEN cur
         ELSE With(decryptPairLegacy(e, apiKeyEnc, apiSecretEnc), LAMBDA leg :
              [res |-> IF leg.res.ok THEN leg.res ELSE cur.res,
               kc |-> cur.kc, trace |-> cur.trace \o leg.trace]))

\* the idrxOnboarded row of the user; NoBlob when prisma finds none
Row(pair) == [fn |-> "row", apiKeyEnc |-> pair.apiKeyEnc, apiSecretEnc |-> pair.apiSecretEnc]

\* getIDRXCredentials(userId) on the row found: the credentials or null
getIDRXCredentials(e, kc, row) ==
    IF row = NoBlob THEN [ret |-> NULL, kc |-> kc, dec |-> NULL]
    ELSE IF row.apiKeyEnc = << >> THEN [ret |-> NULL, kc |-> kc, dec |-> NULL]
    ELSE With(decryptCredentials(e, kc, row.apiKeyEnc, row.apiSecretEnc), LAMBDA d :
         [ret |-> IF d.res.ok THEN d.res.val ELSE NULL, kc |-> d.kc, dec |-> d])

\* storeIDRXCredentials(userId, idrxId, apiKey, apiSecret): the row after the
\* upsert; a throw of encryptCredentialsLegacy leaves the table as it was
storeIDRXCredentials(e, row, apiKey, apiSecret, iv1, iv2) ==
    With(encryptCredentialsLegacy(e, apiKey, apiSecret, iv1, iv2), LAMBDA p :
    IF p.ok THEN [res |-> Returned(TRUE), row |-> Row(p.val)]
    ELSE [res |-> p, row |-> row])

\* rotateIDRXCredentials(userId): decrypt, re-encrypt under the context key,
\* update; false when there is nothing to rotate or anything throws
rotateIDRXCredentials(e, kc, row, iv1, iv2) ==
    IF row = NoBlob \/ row.apiKeyEnc = << >> THEN [ret |-> FALSE, kc |-> kc, row |-> row]
    ELSE With(decryptCredentials(e, kc, row.apiKeyEnc, row.apiSecretEnc), LAMBDA d :
         IF ~d.res.ok THEN [ret |-> FALSE, kc |-> d.kc, row |-> row]
         ELSE With(encryptCredentials(e, d.kc, d.res.val.apiKey, d.res.val.apiSecret,
                                      iv1, iv2), LAMBDA p :
              IF ~p.res.ok THEN [ret |-> FALSE, kc |-> p.kc, row |-> row]
              ELSE [ret |-> TRUE, kc |-> p.kc, row |-> Row(p.res.val)]))

\* migrateIDRXCredentials() over the table: the row afterwards and the counts
migrateIDRXCredentials(e, kc, row, iv1, iv2) ==
    IF row = NoBlob \/ row.apiKeyEnc = << >>
    THEN [migrated |-> 0, failed |-> 0, kc |-> kc, row |-> row]
    ELSE With(decryptCredentials(e, kc, row.apiKeyEnc, row.apiSecretEnc), LAMBDA d :
         IF ~d.res.ok THEN [migrated |-> 0, failed |-> 1, kc |-> d.kc, row |-> row]
         ELSE With(decrypt(e, d.kc, row.apiKeyEnc, SecretsContext), LAMBDA probe :
              IF probe.res.ok
              THEN [migrated |-> 0, failed |-> 0, kc |-> probe.kc, row |-> row]
              ELSE With(encryptCredentials(e, probe.kc, d.res.val.apiKey,
                                           d.res.val.apiSecret, iv1, iv2), LAMBDA p :
                   IF ~p.res.ok
                   THEN [migrated |-> 0, failed |-> 1, kc |-> p.kc, row |-> row]
                   ELSE [migrated |-> 1, failed |-> 0, kc |-> p.kc,
                         row |-> Row(p.res.val)])))

\* the credentials a caller stores: an apiKey of one or of two characters
\* ("A", "A\u00e9"), an apiSecret that is empty or "B"
ApiKeys == { << 65 >>, << 65, 233 >> }
ApiSecrets == { << >>, << 66 >> }

StoreIDRXCredentials(apiKey, apiSecret, iv1, iv2) ==
    \E r \in {storeIDRXCredentials(env, blob, apiKey, apiSecret, iv1, iv2)} :
    /\ blob' = r.row
    /\ out' = [fn |-> "storeIDRXCredentials", apiKey |-> apiKey, apiSecret |-> apiSecret,
               res |-> r.res]
    /\ UNCHANGED <<env, keyCache>>

GetIDRXCredentials ==
    \E r \in {getIDRXCredentials(env, keyCache, blob)} :
    /\ out' = [fn |-> "getIDRXCredentials", ret |-> r.ret, dec |-> r.dec]
    /\ keyCache' = r.kc
    /\ UNCHANGED <<env, blob>>

RotateIDRXCredentials(iv1, iv2) ==
    \E r \in {rotateIDRXCredentials(env, keyCache, blob, iv1, iv2)} :
    /\ blob' = r.row
    /\ keyCache' = r.kc
    /\ out' = [fn |-> "rotateIDRXCredentials", ret |-> r.ret]
    /\ UNCHANGED env

MigrateIDRXCredentials(iv1, iv2) ==
    \E r \in {migrateIDRXCredentials(env, keyCache, blob, iv1, iv2)} :
    /\ blob' = r.row
    /\ keyCache' = r.kc
    /\ out' = [fn |-> "migrateIDRXCredentials", migrated |-> r.migrated,
               failed |-> r.failed]
    /\ UNCHANGED env

CredentialsNext ==
    \/ \E apiKey \in ApiKeys, apiSecret \in ApiSecrets, iv1, iv2 \in IVs :
            StoreIDRXCredentials(apiKey, apiSecret, iv1, iv2)
    \/ GetIDRXCredentials
    \/ \E iv1, iv2 \in IVs : RotateIDRXCredentials(iv1, iv2)
    \/ \E iv1, iv2 \in IVs : MigrateIDRXCredentials(iv1, iv2)

SpecCredentials == CipherInit /\ [][CredentialsNext /\ UNCHANGED serviceVars]_vars

\* the calls decryptCredentials made, by position in the order it made them
LegacyCalls(t) == {i \in 1..Len(t) : t[i].fn = "decryptLegacy"}
FailedCurrent(t) == {i \in 1..Len(t) : t[i].fn = "decrypt" /\ ~t[i].res.ok}

\* C21: in decryptCredentials every decryptLegacy call comes after a decrypt
\* call of the same pair that raised; when the legacy attempt raises too, the
\* error thrown is the one the current-format decrypt created; when the
\* current-format decryption of the pair succeeds, decryptLegacy is not called.
C21_LegacyOnlyAfterCurrentFailed ==
    (out.fn = "getIDRXCredentials" /\ out.dec # NULL) =>
        LET t == out.dec.trace IN
        /\ \A i \in LegacyCalls(t) : \E j \in FailedCurrent(t) : j < i
        /\ Len(t) > 0 /\ t[1].fn = "decrypt"
        /\ (FailedCurrent(t) = {}) => (LegacyCalls(t) = {} /\ out.dec.res.ok)
        /\ (\E i \in LegacyCalls(t) : ~t[i].res.ok) =>
                \E j \in FailedCurrent(t) : out.dec.res = ThrownBy("decrypt", t[j].res)
        /\ (~out.dec.res.ok) => out.dec.res.by = "decrypt"

\* the current-format decrypt of a stored pair raised, decryptLegacy raised
\* as well, and the caller got the current-format error
C21_Witness ==
    /\ out.fn = "getIDRXCredentials" /\ out.dec # NULL
    /\ FailedCurrent(out.dec.trace) # {}
    /\ \E i \in LegacyCalls(out.dec.trace) : ~out.dec.trace[i].res.ok
    /\ out.dec.res.by = "decrypt"

\* C28: credential pair round trip. For every non-empty apiKey and every
\* apiSecret, the empty string included, decryptCredentials applied to the pair
\* encryptCredentials returned gives back {apiKey, apiSecret}, and so does
\* decryptCredentials applied to the pair encryptCredentialsLegacy returned.
C28_PairRoundTrip ==
    \A apiKey \in ApiKeys, apiSecret \in ApiSecrets, iv1, iv2 \in IVs :
        LET p == encryptCredentials(env, keyCache, apiKey, apiSecret, iv1, iv2)
            l == encryptCredentialsLegacy(env, apiKey, apiSecret, iv1, iv2)
            same == Returned([apiKey |-> apiKey, apiSecret |-> apiSecret])
        IN  /\ p.res.ok =>
                decryptCredentials(env, p.kc, p.res.val.apiKeyEnc,
                                   p.res.val.apiSecretEnc).res = same
            /\ l.ok =>
                decryptCredentials(env, keyCache, l.val.apiKeyEnc,
                                   l.val.apiSecretEnc).res = same

\* C29: migration preserves readability. Whenever getIDRXCredentials can
\* decrypt the stored row, it returns the same apiKey and apiSecret after
\* migrateIDRXCredentials and after rotateIDRXCredentials, and a second
\* migration run reports migrated = 0 and failed = 0.
C29_MigrationPreservesReadability ==
    \A iv1, iv2 \in IVs :
        LET before == getIDRXCredentials(env, keyCache, blob)
            m == migrateIDRXCredentials(env, before.kc, blob, iv1, iv2)
            r == rotateIDRXCredentials(env, before.kc, blob, iv1, iv2)
            again == migrateIDRXCredentials(env, m.kc, m.row, iv1, iv2)
        IN  before.ret # NULL =>
                /\ getIDRXCredentials(env, m.kc, m.row).ret = before.ret
                /\ getIDRXCredentials(env, r.kc, r.row).ret = before.ret
                /\ again.migrated = 0 /\ again.failed = 0

(***************************************************************************)
(* The order of validateKey's checks (SpecValidate): direct validateKey    *)
(* calls with every record, the clock and clearCache                       *)
(***************************************************************************)

ValidateNext ==
    /\ \/ \E key \in PresentedKeys : \E r \in AllRecords : ValidateKey(key, r)
       \/ ClearCache
       \/ Tick
    /\ UNCHANGED cipherVars

SpecValidate == Init /\ [][ValidateNext]_vars

\* the cache holds an entry of key that has not expired
LiveEntry(key) == HasEntry(key) /\ now <= EntryOf(key).expiresAt

\* C22: the checks of one validateKey call run in the order format, cache,
\* key id, isActive, expiry, digest, and the call returns at the first one
\* that fails. A malformed key leaves the cache untouched; a live cache entry
\* is returned whatever the record says; the digest comparison decides (null,
\* or the error of a malformed stored digest) only when the key is well formed,
\* the cache missed, the key id matches, the record is active and not expired;
\* and the call puts the key into the cache only when the digest matched.
C22_ChecksInOrder ==
    \A key \in PresentedKeys : \A rec \in AllRecords :
        LET v == validateKey(env, cache, now, key, rec)
            fmt == isValidFormat(key)
            idOk == extractKeyId(key).found /\ extractKeyId(key).id = rec.keyId
            exp == rec.expiresAt # NoExpiry /\ rec.expiresAt < now
            early == fmt /\ ~LiveEntry(key) /\ idOk /\ rec.isActive /\ ~exp
        IN  /\ (v.why = "format") <=> ~fmt
            /\ (v.why = "hit") <=> (fmt /\ LiveEntry(key))
            /\ (v.why = "keyid") <=> (fmt /\ ~LiveEntry(key) /\ ~idOk)
            /\ (v.why = "inactive") <=> (fmt /\ ~LiveEntry(key) /\ idOk /\ ~rec.isActive)
            /\ (v.why = "expired") <=> (fmt /\ ~LiveEntry(key) /\ idOk /\ rec.isActive /\ exp)
            /\ (v.why \in {"threw", "digest", "verified"}) <=> early
            /\ ~fmt => (v.result = NULL /\ v.cache = cache)
            /\ (fmt /\ LiveEntry(key)) => v.result = EntryOf(key).data
            /\ (v.result = ThrownRangeError) => early
            /\ (v.why # "verified") =>
                    (v.result # Validated(rec) \/ v.why = "hit")
                    /\ v.cache = (IF fmt THEN getCached(cache, now, key).cache ELSE cache)
            /\ (v.why = "verified") =>
                    /\ v.result = Validated(rec)
                    /\ v.cache[Len(v.cache)] =
                            [key |-> key,
                             value |-> [data |-> Validated(rec),
                                        expiresAt |-> now + CACHE_TTL_MS]]

\* a call has just been turned down at the expiry check while another key is
\* cached: the cached key is served although its record is inactive and
\* carries a malformed digest, and an uncached key with such a record gets
\* null from the isActive check, not the digest's error
C22_Witness ==
    /\ last = [op |-> "validateKey", why |-> "expired"]
    /\ LiveEntry(KeyA.key)
    /\ validateKey(env, cache, now, KeyA.key,
            StoredRecord(KeyA, FALSE, NoExpiry, ShortDigest)).why = "hit"
    /\ validateKey(env, cache, now, KeyB.key,
            StoredRecord(KeyB, FALSE, NoExpiry, ShortDigest)).why = "inactive"

(***************************************************************************)
(* LRUCache on its own (SpecLRU): get, set and delete on a cache of        *)
(* LruMaxSize entries; last.used is the time of each entry's last found    *)
(* get or set                                                              *)
(***************************************************************************)

LruMaxSize == 2
MaxOps == 5

LruKeys == {"k1", "k2", "k3", "k4"}
LruValues == {[data |-> "v"], [data |-> "w"]}

\* new LRUCache(LruMaxSize)
LruInit ==
    /\ env = ServiceEnv
    /\ keyCache = EmptyKeyCache
    /\ blob = NoBlob
    /\ out = NoOut
    /\ cache = << >>
    /\ now = 0
    /\ calls = [i \in 1..MaxInFlight |-> Idle]
    /\ last = [op |-> "init", key |-> "none", used |-> [k \in LruKeys |-> 0]]

\* the times of last use after an operation at time t that used the keys in
\* touched and left the keys of c in the cache
UsedAfter(c, t, touched) ==
    [k \in LruKeys |-> IF k \in touched THEN t
                       ELSE IF k \in CacheKeys(c) THEN last.used[k] ELSE 0]

LruGet(key) ==
    /\ now < MaxOps
    /\ now' = now + 1
    /\ \E g \in {LRUGet(cache, key)} :
        /\ cache' = g.cache
        /\ last' = [op |-> "get", key |-> key,
                    used |-> UsedAfter(g.cache, now + 1,
                                       IF g.value # NULL THEN {key} ELSE {})]
    /\ UNCHANGED calls

LruSet(key, value) ==
    /\ now < MaxOps
    /\ now' = now + 1
    /\ \E c \in {LRUSet(cache, LruMaxSize, key, value)} :
        /\ cache' = c
        /\ last' = [op |-> "set", key |-> key, used |-> UsedAfter(c, now + 1, {key})]
    /\ UNCHANGED calls

LruDelete(key) ==
    /\ now < MaxOps
    /\ now' = now + 1
    /\ \E c \in {LRUDelete(cache, key)} :
        /\ cache' = c
        /\ last' = [op |-> "delete", key |-> key, used |-> UsedAfter(c, now + 1, {})]
    /\ UNCHANGED calls

LruNext ==
    /\ \/ \E key \in LruKeys : LruGet(key)
       \/ \E key \in LruKeys, value \in LruValues : LruSet(key, value)
       \/ \E key \in LruKeys : LruDelete(key)
    /\ UNCHANGED cipherVars

SpecLRU == LruInit /\ [][LruNext]_vars

\* C23: LRU order. After every sequence of get / set / delete the entries are
\* held in the order of their last found get or set, so the key a found get or
\* a set used is the most recently used one; and a set of a new key made at
\* capacity removes exactly the entry whose last get or set is the oldest.
C23_LruOrder ==
    /\ [](/\ \A i, j \in 1..Len(cache) :
                i < j => last.used[cache[i].key] < last.used[cache[j].key]
          /\ (last.op = "set" \/ (last.op = "get" /\ last.key \in CacheKeys(cache)))
                => cache[Len(cache)].key = last.key
          /\ Len(cache) <= LruMaxSize)
    /\ [][(last'.op = "set" /\ last'.key \notin CacheKeys(cache)
                /\ Len(cache) = LruMaxSize)
            => \E old \in CacheKeys(cache) :
                /\ \A k \in CacheKeys(cache) : last.used[old] <= last.used[k]
                /\ CacheKeys(cache') = (CacheKeys(cache) \ {old}) \cup {last'.key}]_vars
    /\ [][(last'.op = "get" \/ ~(last'.key \notin CacheKeys(cache)
                /\ Len(cache) = LruMaxSize))
            => CacheKeys(cache') = (CacheKeys(cache) \cup
                    (IF last'.op = "set" THEN {last'.key} ELSE {}))
                        \ (IF last'.op = "delete" THEN {last'.key} ELSE {})]_vars

\* k1 and k2 were set, k1 was used again after k2, and the set of k3 at
\* capacity has just removed k2
C23_Witness ==
    /\ last.op = "set" /\ last.key = "k3"
    /\ Len(cache) = LruMaxSize
    /\ cache[1].key = "k1"
    /\ last.used["k2"] = 0
    /\ last.used["k1"] >= 3

(***************************************************************************)
(* Expiry of cache entries (checked under Spec)                            *)
(***************************************************************************)

\* the entry of key as it is in the cache is also an entry of c
Keeps(c, key) == \E i \in 1..Len(c) : c[i] = cache[LRUIndex(cache, key)]

\* C24: lazy expiry. An entry whose expiresAt has passed is not returned by
\* validateKey or validateKeyAsync; a lookup of its key removes it (a
\* verification in the same call may store a new one); the passing of time
\* alone changes nothing in the cache; and the expired entry stays through
\* lookups of other keys and invalidateCache of other names, until a set of
\* another key at capacity evicts it as the oldest entry, or invalidateCache
\* of its key or clearCache removes it.
C24_LazyExpiry ==
    /\ [][now' # now => cache' = cache]_vars
    /\ [](\A key \in CacheKeys(cache) :
            now > EntryOf(key).expiresAt =>
                /\ LET s == validateKeyAsyncStart(cache, now, key)
                   IN  s.why # "hit" /\ key \notin CacheKeys(s.cache)
                /\ \A rec \in RecordsTried(key) :
                      LET v == validateKey(env, cache, now, key, rec)
                      IN  /\ v.why # "hit"
                          /\ ~Keeps(v.cache, key)
                          /\ (key \in CacheKeys(v.cache)) => v.why = "verified"
                /\ \A other \in PresentedKeys \ {key} :
                      /\ Keeps(validateKeyAsyncStart(cache, now, other).cache, key)
                      /\ \A rec \in RecordsTried(other) :
                            LET v == validateKey(env, cache, now, other, rec)
                            IN  Keeps(v.cache, key)
                                \/ (/\ v.why = "verified"
                                    /\ Len(getCached(cache, now, other).cache)
                                            >= CACHE_MAX_SIZE
                                    /\ getCached(cache, now, other).cache[1].key = key)
                /\ \A x \in (PresentedKeys \cup KeyIdTokens) \ {key} :
                      Keeps(invalidateCache(cache, x), key)
                /\ ~Keeps(invalidateCache(cache, key), key)
                /\ ~Keeps(clearCache(cache), key))

\* time has passed beyond the expiresAt of a cached key and the entry is still
\* in the cache
C24_Witness ==
    /\ last.op = "tick"
    /\ HasEntry(KeyA.key)
    /\ now > EntryOf(KeyA.key).expiresAt

(***************************************************************************)
(* Key normalization (SpecNormalize): the cipher under ENCRYPTION_KEY set  *)
(* to each kind of raw key value                                           *)
(***************************************************************************)

NormalizeInit ==
    /\ env \in { EnvOf(Unset, Unset, raw) : raw \in RawKeys }
    /\ keyCache = EmptyKeyCache
    /\ blob = NoBlob
    /\ out = NoOut
    /\ cache = << >>
    /\ now = 0
    /\ calls = [i \in 1..MaxInFlight |-> Idle]
    /\ last = [op |-> "init", why |-> "none"]

\* one plaintext and one nonce under each context, and the legacy pair
NormalizeNext ==
    \/ \E c \in KeyContext : Encrypt(ProbeText, c, ProbeIV)
    \/ EncryptLegacy(ProbeText, ProbeIV)
    \/ \E c \in KeyContext : Decrypt(c)
    \/ DecryptLegacy
    \/ ClearKeyCache

SpecNormalize == NormalizeInit /\ [][NormalizeNext /\ UNCHANGED serviceVars]_vars

\* C25: normalizeKey returns 32 bytes for every raw value, by the first rule
\* that applies: the first 32 bytes of the base64 decoding when that has at
\* least 32 bytes; else the first 32 bytes of the hex decoding when that has at
\* least 32; else the UTF-8 bytes when they are exactly 32; else
\* PBKDF2-SHA256 of the UTF-8 bytes with 100,000 iterations and the fixed
\* salt. Every key getMasterKey holds is such a key.
C25_NormalizeKeyRules ==
    /\ \A raw \in RawKeys \cup {env["ENCRYPTION_KEY"]} :
        LET k == normalizeKey(raw)
            b == BufferFromBase64(KeyTexts[raw.id])
            h == BufferFromHex(KeyTexts[raw.id])
            u == Utf8Encode(KeyTexts[raw.id])
        IN  /\ Len(KeyBytes(k)) = 32
            /\ k.via \in {"base64", "hex", "utf8", "pbkdf2"}
            /\ Len(b) >= 32 => (k.via = "base64" /\ KeyBytes(k) = SubSeq(b, 1, 32))
            /\ (Len(b) < 32 /\ Len(h) >= 32)
                    => (k.via = "hex" /\ KeyBytes(k) = SubSeq(h, 1, 32))
            /\ (Len(b) < 32 /\ Len(h) < 32 /\ Len(u) = 32)
                    => (k.via = "utf8" /\ KeyBytes(k) = u)
            /\ (Len(b) < 32 /\ Len(h) < 32 /\ Len(u) # 32)
                    => (k.via = "pbkdf2"
                        /\ KeyBytes(k) = pbkdf2Sync(u, KeySalt, 100000, 32, "sha256"))
    /\ \A c \in KeyContext :
        keyCache[c] # NULL =>
            (keyCache[c] = normalizeKey(env["ENCRYPTION_KEY"])
             /\ Len(KeyBytes(keyCache[c])) = 32)

\* encrypt has run under a raw value whose base64 decoding is longer than 32
\* bytes, and under one that is a passphrase: the key held is the truncated
\* decoding, or the PBKDF2 derivation
C25_Witness ==
    /\ blob.fn = "encrypt" /\ blob.res.ok
    /\ keyCache[blob.ctx] # NULL
    /\ env["ENCRYPTION_KEY"].b64 > KEY_LENGTH
    /\ keyCache[blob.ctx].via = "base64"
    /\ Len(BufferFromBase64(KeyTexts[keyCache[blob.ctx].raw])) = 33

\* C30: a raw key value of exactly 64 hexadecimal characters is handled by the
\* hex branch of normalizeKey, which returns the 32 bytes of its hexadecimal
\* decoding.
C30_HexKeyDecodedAsHex ==
    \A raw \in RawKeys \cup {env["ENCRYPTION_KEY"]} :
        LET text == KeyTexts[raw.id] IN
        (Len(text) = 64 /\ \A i \in 1..Len(text) : HexValue(text[i]) >= 0)
            => /\ normalizeKey(raw).via = "hex"
               /\ KeyBytes(normalizeKey(raw)) = BufferFromHex(text)

\* C26: bounded staleness. Every entry of the cache after a step is either an
\* entry that was there before the step, unchanged, or the entry a full
\* verification stored in that step with expiresAt = now + CACHE_TTL_MS; so
\* no hit extends an expiry and every entry was created at expiresAt -
\* CACHE_TTL_MS, a time not after now. A non-null result of validateKey or
\* validateKeyAsync either comes from the full verification of the record in
\* that call or is the data of an entry created at most CACHE_TTL_MS earlier.
C26_BoundedStaleness ==
    /\ [][\A j \in 1..Len(cache') :
            \/ \E i \in 1..Len(cache) : cache[i] = cache'[j]
            \/ /\ last'.why = "verified"
               /\ j = Len(cache')
               /\ cache'[j].value.expiresAt = now' + CACHE_TTL_MS]_vars
    /\ [](\A i \in 1..Len(cache) :
            /\ cache[i].value.expiresAt - CACHE_TTL_MS >= 0
            /\ cache[i].value.expiresAt - CACHE_TTL_MS <= now)
    /\ [](\A key \in PresentedKeys :
            LET s == validateKeyAsyncStart(cache, now, key)
                created == EntryOf(key).expiresAt - CACHE_TTL_MS
            IN  /\ (s.returns /\ s.result # NULL) =>
                    /\ HasEntry(key) /\ s.result = EntryOf(key).data
                    /\ now - created <= CACHE_TTL_MS
                    /\ Keeps(s.cache, key)
                /\ \A rec \in RecordsTried(key) :
                    LET v == validateKey(env, cache, now, key, rec)
                    IN  (v.result # NULL /\ v.result # ThrownRangeError) =>
                            \/ /\ v.why = "verified"
                               /\ v.result = Validated(rec)
                               /\ rec.isActive /\ ~expired(rec, now)
                               /\ rec.hashedKey = hashKey(env, key)
                            \/ /\ v.why = "hit"
                               /\ HasEntry(key) /\ v.result = EntryOf(key).data
                               /\ now - created <= CACHE_TTL_MS
                               /\ Keeps(v.cache, key))

\* a key verified earlier has just been answered from the cache at the last
\* instant of its entry, whose expiresAt is still the one set at verification
C26_Witness ==
    /\ last.why = "hit"
    /\ now > 0
    /\ HasEntry(KeyA.key)
    /\ EntryOf(KeyA.key).expiresAt = now

\* C27: revocation is not undone by validations in flight. In every state
\* where a validateKeyAsync call for an issued key is suspended at its lookup,
\* having read the still active record: once the record has been deactivated
\* and invalidateCache(key) has returned, and the suspended call has resumed
\* with the record it read, a validateKeyAsync call for the key that begins
\* afterwards (its lookup reading the deactivated record) returns null.
C27_RevocationNotUndone ==
    \A i \in 1..MaxInFlight :
        (calls[i] # Idle /\ calls[i].key \in IssuedKeyStrings) =>
            LET key == calls[i].key
                k == IssuedAs(key)
                revoked == invalidateCache(cache, key)
                resumed == validateKeyAsyncResume(env, revoked, now, key, FreshRecord(k))
                later == validateKeyAsyncStart(resumed.cache, now, key)
            IN  IF later.returns THEN later.result = NULL
                ELSE validateKeyAsyncResume(env, later.cache, now, key,
                        [FreshRecord(k) EXCEPT !.isActive = FALSE]).result = NULL
====
